---- MODULE Spec2Model ----
(***************************************************************************)
(* Graph-event ingestion pipeline of graph_chat: the partitioned-log       *)
(* consumer (EventHubConsumerService + LocalCheckpointStore), the          *)
(* batching event processor (GraphEventProcessor) and the graph upsert     *)
(* engine (GremlinService), with the graph store the Gremlin queries act   *)
(* on.                                                                     *)
(***************************************************************************)
EXTENDS Integers, Sequences, FiniteSets, TLC

VARIABLES
    graph,              \* the graph store: [V: set of vertices, E: set of edges]
    log,                \* the partitioned log: partition id -> sequence of payloads
    checkpoints,        \* LocalCheckpointStore: partition id -> record or None
    run,                \* the current receive_batch call (arguments, starting positions)
    position,           \* partition id -> index of the next event the SDK delivers
    batch,              \* the batch on_event_batch is working on, or None
    node_event_batch,   \* GraphEventProcessor._node_event_batch
    handlerLog,         \* handler invocations of this run, in order
    engineLog,          \* graph mutations attempted in this run, in order
    rateLimited,        \* events whose mutation ended in exhausted 429 retries
    fatal,              \* an exception left on_event_batch
    faults,             \* execute_query failures injected so far
    runs,               \* receive_batch calls so far
    service,            \* GremlinService: _client, _current_token, tokens fetched
    query,              \* the execute_query call in progress, or the last one
    now,                \* datetime.now(timezone.utc).timestamp(), in seconds
    submitted,          \* the query texts a query builder has made, with its arguments
    producer,           \* EventHubService.send_events: the call, its batch, what was sent
    checkpoint_store,   \* LocalCheckpointStore: the files of the directory, the latest call
    maintenance,        \* clear_events.py: the latest maintenance operation
    shutdown,           \* GraphEventProcessor.stop: what it has done, in order
    validated,          \* the latest GraphNodeEvent / GraphEdgeEvent validation
    workers             \* threads inside GremlinService.execute_query, and its connections

vars == <<graph, log, checkpoints, run, position, batch, node_event_batch,
          handlerLog, engineLog, rateLimited, fatal, faults, runs,
          service, query, now, submitted,
          producer, checkpoint_store, maintenance, shutdown, validated, workers>>

serviceVars == <<service, query, now, submitted>>

utilityVars == <<producer, checkpoint_store, maintenance, shutdown, validated, workers>>

pipelineVars == <<log, checkpoints, run, position, batch, node_event_batch,
                  handlerLog, engineLog, rateLimited, fatal, faults, runs>>

(***************************************************************************)
(* Bounds of the model.                                                    *)
(***************************************************************************)
MaxEvents == 2          \* events appended to the log, all partitions together
MaxRuns == 2            \* receive_batch calls (process starts)
MaxFaults == 1          \* execute_query calls that end in an error
NODE_BATCH_SIZE == 3    \* GraphEventProcessor.NODE_BATCH_SIZE, scaled down from 50
MaxDelivered == 3       \* events handed to the processor's handlers (SpecProcessor)

None == "None"          \* Python None
Absent == "<absent>"    \* a key that is not in a dict
Null == "<null>"        \* a JSON null / Python None value inside data

UPSERT == "UPSERT"
DELETE == "DELETE"

(***************************************************************************)
(* Event models (models/events.py), as parsed objects.                     *)
(***************************************************************************)
PropKeys == {"name"}
EmptyData == [k \in PropKeys |-> Absent]

GraphNodeEvent(label, node_type, action, data) ==
    [kind |-> "node", action |-> action, label |-> label, node_type |-> node_type,
     data |-> data]

GraphEdgeEvent(src, srcType, dst, dstType, edge_type, action, data) ==
    [kind |-> "edge", action |-> action, edge_type |-> edge_type,
     source_node_id |-> src, source_node_type |-> srcType,
     target_node_id |-> dst, target_node_type |-> dstType, data |-> data]

(***************************************************************************)
(* The graph store as the queries of GremlinService see it.  A vertex has  *)
(* an id, a vertex label and a partition key; the store keeps (id,         *)
(* partitionKey) unique and refuses an addV that would repeat it.  An edge *)
(* joins two vertices, named by (id, partitionKey).                        *)
(***************************************************************************)
EmptyGraph == [V |-> {}, E |-> {}]

VKey(v) == <<v.id, v.pk>>

\* _build_property_string: the property writes of a data dict, as key -> value;
\* excluded keys and null values are left out.
_build_property_string(data, exclude_keys) ==
    [k \in {k \in DOMAIN data : k \notin exclude_keys /\ data[k] \notin {Null, Absent}}
        |-> data[k]]

\* .property(k, v) steps applied to an element's properties
ApplyProperties(props, writes) ==
    [k \in DOMAIN props |-> IF k \in DOMAIN writes THEN writes[k] ELSE props[k]]

Result(g, raised) == [g |-> g, raised |-> raised]

\* the create branch written without its property writes
UpsertNodeCreateBare(g, label, node_type, data) ==
    LET properties == _build_property_string(data, {"id", "partitionKey"})
        found == {v \in g.V : v.id = label /\ v.label = label}
    IN  IF found # {}
        THEN Result([g EXCEPT !.V = (g.V \ found) \cup
                        {[v EXCEPT !.props = ApplyProperties(v.props, properties)] : v \in found}],
                    FALSE)
        ELSE IF \E v \in g.V : v.id = label /\ v.pk = node_type
        THEN Result(g, TRUE)
        ELSE Result([g EXCEPT !.V = g.V \cup
                        {[id |-> label, label |-> label, pk |-> node_type,
                          props |-> EmptyData]}], FALSE)

\* _upsert_node: g.V(label).has('label', label).fold().coalesce(
\*     unfold()<properties>, addV(label).property('id', label)
\*                              .property('partitionKey', node_type)<properties>)
_upsert_node(g, label, node_type, data) ==
    LET properties == _build_property_string(data, {"id", "partitionKey"})
        found == {v \in g.V : v.id = label /\ v.label = label}
    IN  IF found # {}
        THEN Result([g EXCEPT !.V = (g.V \ found) \cup
                        {[v EXCEPT !.props = ApplyProperties(v.props, properties)] : v \in found}],
                    FALSE)
        ELSE IF \E v \in g.V : v.id = label /\ v.pk = node_type
        THEN Result(g, TRUE)      \* addV repeats (id, partitionKey): the store raises
        ELSE Result([g EXCEPT !.V = g.V \cup
                        {[id |-> label, label |-> label, pk |-> node_type,
                          props |-> ApplyProperties(EmptyData, properties)]}], FALSE)

\* a drop that takes the vertex and leaves the edges on it
DeleteNodeKeepEdges(g, label) ==
    Result([g EXCEPT !.V = {v \in g.V : ~(v.id = label /\ v.label = label)}], FALSE)

\* _delete_node: g.V(label).has('label', label).drop(); dropping a vertex drops
\* the edges on it.
_delete_node(g, label) ==
    LET found == {v \in g.V : v.id = label /\ v.label = label}
        keys == {VKey(v) : v \in found}
    IN  Result([V |-> g.V \ found,
                E |-> {e \in g.E : e.src \notin keys /\ e.dst \notin keys}], FALSE)

\* g.V(id).fold().coalesce(unfold(), addV(pk).property('id', id)
\*                                       .property('partitionKey', pk))
EnsureVertex(g, id, pk) ==
    IF \E v \in g.V : v.id = id
    THEN g
    ELSE [g EXCEPT !.V = g.V \cup
            {[id |-> id, label |-> pk, pk |-> pk, props |-> EmptyData]}]

\* g.V(id) yields a vertex
HasVertex(g, id) == \E v \in g.V : v.id = id

\* _upsert_edge without the query that ensures the target vertex; addE to an
\* empty traversal adds nothing
UpsertEdgeTargetNotEnsured(g, event) ==
    LET properties == _build_property_string(event.data, {})
        g1 == EnsureVertex(g, event.source_node_id, event.source_node_type)
        found == {e \in g1.E : e.src[1] = event.source_node_id
                               /\ e.label = event.edge_type
                               /\ e.dst[1] = event.target_node_id}
        sources == {VKey(v) : v \in {v \in g1.V : v.id = event.source_node_id}}
        targets == {VKey(v) : v \in {v \in g1.V : v.id = event.target_node_id}}
    IN  IF found # {}
        THEN Result([g1 EXCEPT !.E = (g1.E \ found) \cup
                        {[e EXCEPT !.props = ApplyProperties(e.props, properties)] : e \in found}],
                    FALSE)
        ELSE IF targets = {} THEN Result(g1, FALSE)
        ELSE Result([g1 EXCEPT !.E = g1.E \cup
                        {[src |-> s, dst |-> CHOOSE t \in targets : TRUE,
                          label |-> event.edge_type,
                          props |-> ApplyProperties(EmptyData, properties)] : s \in sources}],
                    FALSE)

\* _upsert_edge: ensure the source, ensure the target, then
\* g.V(source).outE(edge_label).where(inV().has('id', target)).fold().coalesce(
\*     unfold()<properties>, g.V(source).addE(edge_label).to(g.V(target))<properties>)
_upsert_edge(g, event) ==
    LET properties == _build_property_string(event.data, {})
        g1 == EnsureVertex(g, event.source_node_id, event.source_node_type)
        g2 == EnsureVertex(g1, event.target_node_id, event.target_node_type)
        found == {e \in g2.E : e.src[1] = event.source_node_id
                               /\ e.label = event.edge_type
                               /\ e.dst[1] = event.target_node_id}
        sources == {VKey(v) : v \in {v \in g2.V : v.id = event.source_node_id}}
        targets == {VKey(v) : v \in {v \in g2.V : v.id = event.target_node_id}}
        \* to(g.V(target)) takes the first vertex the traversal yields
        target == CHOOSE t \in targets : TRUE
    IN  IF found # {}
        THEN Result([g2 EXCEPT !.E = (g2.E \ found) \cup
                        {[e EXCEPT !.props = ApplyProperties(e.props, properties)] : e \in found}],
                    FALSE)
        ELSE Result([g2 EXCEPT !.E = g2.E \cup
                        {[src |-> s, dst |-> target, label |-> event.edge_type,
                          props |-> ApplyProperties(EmptyData, properties)] : s \in sources}],
                    FALSE)

\* _delete_edge: g.V(source).outE(edge_label).where(inV().has('id', target)).drop()
_delete_edge(g, event) ==
    Result([g EXCEPT !.E = {e \in g.E : ~(e.src[1] = event.source_node_id
                                          /\ e.label = event.edge_type
                                          /\ e.dst[1] = event.target_node_id)}],
           FALSE)

\* process_node_event
process_node_event(g, event) ==
    IF event.action = UPSERT
    THEN _upsert_node(g, event.label, event.node_type, event.data)
    ELSE IF event.action = DELETE
    THEN _delete_node(g, event.label)
    ELSE Result(g, FALSE)

\* process_edge_event
process_edge_event(g, event) ==
    IF event.action = UPSERT
    THEN _upsert_edge(g, event)
    ELSE IF event.action = DELETE
    THEN _delete_edge(g, event)
    ELSE Result(g, FALSE)

(***************************************************************************)
(* GremlinService's connection: the lazily built client, the token it was  *)
(* built with, and execute_query's retry loop.  A client is named by the   *)
(* number of the token fetched for it.                                     *)
(***************************************************************************)
MAX_RETRIES == 5
BASE_DELAY_SECONDS == 1
MAX_DELAY_SECONDS == 32
TOKEN_REFRESH_BUFFER_SECONDS == 300

TokenLifetime == 500    \* seconds from get_token to the token's expires_on
TickSeconds == 100      \* seconds the clock moves in one step
MaxTime == 500          \* the clock stops here
MaxCalls == 2           \* execute_query calls

\* what a submit can end in: a result, GremlinServerError with 429, with
\* 401/403, or with anything else
Responses == {"ok", "429", "401", "error"}

NoToken == [exists |-> FALSE]
AccessToken(id, expires_on) == [exists |-> TRUE, id |-> id, expires_on |-> expires_on]

NoClient == [open |-> FALSE]
Client(token) == [open |-> TRUE, token |-> token]

InitService == [_client |-> NoClient, _current_token |-> NoToken, tokens |-> 0]

NoQuery ==
    [pc |-> "idle", call |-> 0, attempt |-> 0, last_exception |-> None,
     responses |-> <<>>, delays |-> <<>>, conns |-> <<>>,
     expiring |-> FALSE, before |-> NoClient, tokens |-> 0, error |-> None]

\* _is_token_expired_or_expiring_soon at time t
_is_token_expired_or_expiring_soon(svc, t) ==
    IF ~svc._current_token.exists THEN TRUE
    ELSE svc._current_token.expires_on - t < TOKEN_REFRESH_BUFFER_SECONDS

\* _close_client
_close_client(svc) == [svc EXCEPT !._client = NoClient]

\* the token check left out
RefreshNever(svc, t) == svc

\* _refresh_client_if_needed
_refresh_client_if_needed(svc, t) ==
    IF _is_token_expired_or_expiring_soon(svc, t) THEN _close_client(svc) ELSE svc

\* _get_access_token: a token is fetched and kept as _current_token
_get_access_token(svc, t) ==
    [svc EXCEPT !._current_token = AccessToken(svc.tokens + 1, t + TokenLifetime),
                !.tokens = @ + 1]

\* the gremlin_client property: the client is built, with a token fetched for
\* it, when there is none
gremlin_client(svc, t) ==
    IF ~svc._client.open
    THEN LET fetched == _get_access_token(svc, t)
         IN  [fetched EXCEPT !._client = Client(fetched._current_token.id)]
    ELSE svc

\* a delay that grows by the base with every attempt
DelayLinear(attempt, jitter) ==
    IF BASE_DELAY_SECONDS * (attempt + 1) + jitter < MAX_DELAY_SECONDS
    THEN BASE_DELAY_SECONDS * (attempt + 1) + jitter
    ELSE MAX_DELAY_SECONDS

\* the delay before the retry that follows attempt number attempt
Delay(attempt, jitter) ==
    IF BASE_DELAY_SECONDS * (2 ^ attempt) + jitter < MAX_DELAY_SECONDS
    THEN BASE_DELAY_SECONDS * (2 ^ attempt) + jitter
    ELSE MAX_DELAY_SECONDS

\* a 429 answered by an immediate retry
OnRateLimitNoSleep(q, e, jitter) ==
    IF q.attempt < MAX_RETRIES - 1
    THEN [q EXCEPT !.last_exception = e, !.attempt = @ + 1]
    ELSE [q EXCEPT !.last_exception = e, !.pc = "raised", !.error = e]

\* execute_query, except branch for 429 / RequestRateTooLarge
OnRateLimit(q, e, jitter) ==
    IF q.attempt < MAX_RETRIES - 1
    THEN [q EXCEPT !.last_exception = e,
                   !.delays = Append(@, Delay(q.attempt, jitter)),
                   !.attempt = @ + 1]
    ELSE [q EXCEPT !.last_exception = e, !.pc = "raised", !.error = e]

\* an auth error retried whatever the attempt number
OnAuthErrorAlwaysRetried(q, e) == [q EXCEPT !.attempt = @ + 1]

\* execute_query, except branch for 401 / Unauthorized / 403 (after
\* _close_client)
OnAuthError(q, e) ==
    IF q.attempt < MAX_RETRIES - 1
    THEN [q EXCEPT !.attempt = @ + 1]
    ELSE [q EXCEPT !.pc = "raised", !.error = e]

\* "for attempt in range(self.MAX_RETRIES)" after a continue: the next pass,
\* or the loop is over and the statements after it run: raise last_exception
LoopEnd(q) ==
    IF q.pc = "loop" /\ q.attempt >= MAX_RETRIES
    THEN [q EXCEPT !.pc = "fell_through", !.error = q.last_exception]
    ELSE q

(***************************************************************************)
(* Query texts.  A string is a sequence of symbols: the single quote, the  *)
(* backslash, and tokens that stand for runs of ordinary characters.  The  *)
(* text of a query is the sequence of the symbols of its f-string.         *)
(***************************************************************************)
QUOTE == "'"
BACKSLASH == "\\"

NoneSubmitted == [builder |-> "none"]

\* str.replace(old, new) for a one-character old
RECURSIVE Replace(_, _, _)
Replace(value, old, new) ==
    IF value = <<>> THEN <<>>
    ELSE (IF Head(value) = old THEN new ELSE <<Head(value)>>)
         \o Replace(Tail(value), old, new)

\* only the quotes are escaped
EscapeQuotesOnly(value) == Replace(value, QUOTE, <<BACKSLASH, QUOTE>>)

\* _escape: value.replace("\\", "\\\\").replace("'", "\\'")
_escape(value) ==
    Replace(Replace(value, BACKSLASH, <<BACKSLASH, BACKSLASH>>), QUOTE, <<BACKSLASH, QUOTE>>)

\* f"'{self._escape(value)}'"
Quoted(value) == <<QUOTE>> \o _escape(value) \o <<QUOTE>>

\* a dict is the sequence of its items; an item has a key and a value that is
\* None or a string
Item(key, value) == [key |-> key, is_none |-> FALSE, value |-> value]
NoneItem(key) == [key |-> key, is_none |-> TRUE, value |-> <<>>]

\* _build_property_string with every value written, None included
RECURSIVE PropertyStringWithNone(_, _)
PropertyStringWithNone(items, exclude_keys) ==
    IF items = <<>> THEN <<>>
    ELSE LET item == Head(items)
             rest == PropertyStringWithNone(Tail(items), exclude_keys)
         IN  IF item.key \in exclude_keys THEN rest
             ELSE <<".property(">> \o Quoted(item.key) \o <<", ">>
                  \o Quoted(IF item.is_none THEN <<"None">> ELSE item.value)
                  \o <<")">> \o rest

\* _build_property_string as text: the .property('key', 'value') parts of the
\* items of data, in the order of data.items()
RECURSIVE PropertyString(_, _)
PropertyString(items, exclude_keys) ==
    IF items = <<>> THEN <<>>
    ELSE LET item == Head(items)
             rest == PropertyString(Tail(items), exclude_keys)
         IN  IF item.key \in exclude_keys THEN rest
             ELSE IF item.is_none THEN rest
             ELSE <<".property(">> \o Quoted(item.key) \o <<", ">>
                  \o Quoted(item.value) \o <<")">> \o rest

(***************************************************************************)
(* What the other entry points start from.                                 *)
(***************************************************************************)
NoProducer == [pc |-> "idle"]
NoStore == [files |-> <<>>, call |-> [op |-> "none"]]
NoMaintenance == [op |-> "none"]
NoShutdown == [stopped |-> FALSE, steps |-> <<>>]
NoneValidated == [model |-> "none"]

(***************************************************************************)
(* The partitioned log and the wire payloads.  A payload records what      *)
(* _process_event asks of it: whether json.loads accepts it, which         *)
(* discriminator fields it carries, whether model_validate accepts it, and *)
(* the event it parses to.                                                 *)
(***************************************************************************)
Partitions == {"0", "1"}

Body(json, has_node_type, has_edge_type, valid, event) ==
    [json |-> json, has_node_type |-> has_node_type, has_edge_type |-> has_edge_type,
     valid |-> valid, event |-> event]

NoEvent == [kind |-> "none"]

UpsertA == GraphNodeEvent("A", "user", UPSERT, EmptyData)
DeleteA == GraphNodeEvent("A", "user", DELETE, EmptyData)
UpsertB == GraphNodeEvent("B", "article", UPSERT, EmptyData)
LikesAB == GraphEdgeEvent("A", "user", "B", "article", "likes", UPSERT, EmptyData)

\* model_dump_json of an event: the discriminator of its own kind only
Wire(event) ==
    Body(TRUE, event.kind = "node", event.kind = "edge", TRUE, event)

Payloads ==
    { Wire(UpsertA),
      Wire(LikesAB),
      Body(TRUE, TRUE, TRUE, TRUE, UpsertB),      \* both discriminators, a valid node
      Body(TRUE, FALSE, FALSE, FALSE, NoEvent),   \* neither discriminator
      Body(FALSE, FALSE, FALSE, FALSE, NoEvent),  \* not JSON
      Body(TRUE, TRUE, FALSE, FALSE, NoEvent) }   \* node_type present, validation fails

\* An event of the log is named by <<partition, index>>, index from 1.
SequenceNumber(i) == i - 1
Offset(i) == <<"offset", i>>
EARLIEST == <<"-1">>
LATEST == <<"@latest">>

EventOf(ref) == log[ref[1]][ref[2]].event

AllEvents == Len(log["0"]) + Len(log["1"])

(***************************************************************************)
(* LocalCheckpointStore: one file per partition.                           *)
(***************************************************************************)
NoCheckpoint == [exists |-> FALSE]

get_checkpoint(store, partition_id) == store[partition_id]

save_checkpoint(store, partition_id, offset, sequence_number) ==
    [store EXCEPT ![partition_id] =
        [exists |-> TRUE, offset |-> offset, sequence_number |-> sequence_number]]

\* the checkpoint of the partition is at or past event i
Covered(p, i) ==
    checkpoints[p].exists /\ checkpoints[p].sequence_number >= SequenceNumber(i)

(***************************************************************************)
(* GremlinService.process_node_events_batch and the processor's handlers.  *)
(* An execute_query call can end in an error after its retries; failAt,    *)
(* failInd and edgeFail say which calls of a handler do.                   *)
(***************************************************************************)
Attempt(ref, kind, ok, pending) ==
    [ref |-> ref, kind |-> kind, ok |-> ok, pending |-> pending]

IsUpsert(ref) == EventOf(ref).action = UPSERT
IsDelete(ref) == EventOf(ref).action = DELETE

RECURSIVE ApplyInOrder(_, _, _, _)
\* the mutations of refs[k..], one execute_query after the other, up to the
\* first that raises
ApplyInOrder(g, refs, k, failAt) ==
    IF k > Len(refs)
    THEN [g |-> g, raised |-> FALSE, attempts |-> <<>>, injected |-> 0]
    ELSE LET r == IF k = failAt THEN Result(g, TRUE)
                  ELSE process_node_event(g, EventOf(refs[k]))
         IN  IF r.raised
             THEN [g |-> g, raised |-> TRUE,
                   attempts |-> <<Attempt(refs[k], "node", FALSE, 0)>>,
                   injected |-> IF k = failAt THEN 1 ELSE 0]
             ELSE LET rest == ApplyInOrder(r.g, refs, k + 1, failAt)
                  IN  [g |-> rest.g, raised |-> rest.raised,
                       attempts |-> <<Attempt(refs[k], "node", TRUE, 0)>> \o rest.attempts,
                       injected |-> rest.injected]

\* process_node_events_batch: the upserts (in chunks of batch_size, each chunk
\* one query after the other), then the deletes
process_node_events_batch(g, events, failAt) ==
    LET upsert_events == SelectSeq(events, IsUpsert)
        delete_events == SelectSeq(events, IsDelete)
    IN  ApplyInOrder(g, upsert_events \o delete_events, 1, failAt)

RECURSIVE Individually(_, _, _, _)
\* the fallback loop of _flush_node_batch: each event on its own, a failure
\* is printed and the loop goes on
Individually(g, events, k, failInd) ==
    IF k > Len(events)
    THEN [g |-> g, attempts |-> <<>>, limited |-> {}]
    ELSE LET r == IF k \in failInd THEN Result(g, TRUE)
                  ELSE process_node_event(g, EventOf(events[k]))
             rest == Individually(r.g, events, k + 1, failInd)
         IN  [g |-> rest.g,
              attempts |-> <<Attempt(events[k], "node", ~r.raised, 0)>> \o rest.attempts,
              limited |-> (IF k \in failInd THEN {events[k]} ELSE {}) \cup rest.limited]

Handled(g, buf, attempts, limited, injected) ==
    [g |-> g, buf |-> buf, attempts |-> attempts, limited |-> limited,
     injected |-> injected]

\* a flush that gives up the buffer when the batch raises
FlushWithoutFallback(g, buf, failAt, failInd) ==
    IF buf = <<>>
    THEN Handled(g, <<>>, <<>>, {}, 0)
    ELSE LET b == process_node_events_batch(g, buf, failAt)
         IN  Handled(b.g, <<>>, b.attempts, {}, b.injected)

\* a flush that keeps in the buffer the events that failed on their own
FlushKeepingFailed(g, buf, failAt, failInd) ==
    IF buf = <<>>
    THEN Handled(g, <<>>, <<>>, {}, 0)
    ELSE LET b == process_node_events_batch(g, buf, failAt)
         IN  IF ~b.raised
             THEN Handled(b.g, <<>>, b.attempts, {}, 0)
             ELSE LET f == Individually(b.g, buf, 1, failInd)
                      failed(ref) == ref \in f.limited
                  IN  Handled(f.g, SelectSeq(buf, failed), b.attempts \o f.attempts,
                              f.limited, b.injected + Cardinality(f.limited))

\* _flush_node_batch
_flush_node_batch(g, buf, failAt, failInd) ==
    IF buf = <<>>
    THEN Handled(g, <<>>, <<>>, {}, 0)
    ELSE LET b == process_node_events_batch(g, buf, failAt)
         IN  IF ~b.raised
             THEN Handled(b.g, <<>>, b.attempts, {}, 0)
             ELSE LET f == Individually(b.g, buf, 1, failInd)
                  IN  Handled(f.g, <<>>, b.attempts \o f.attempts, f.limited,
                              b.injected + Cardinality(f.limited))

\* the flush only once the buffer is over the bound
HandleNodeFlushAboveBound(g, buf, ref, failAt, failInd) ==
    LET appended == Append(buf, ref)
    IN  IF Len(appended) > NODE_BATCH_SIZE
        THEN _flush_node_batch(g, appended, failAt, failInd)
        ELSE Handled(g, appended, <<>>, {}, 0)

\* _handle_node_event
_handle_node_event(g, buf, ref, failAt, failInd) ==
    LET appended == Append(buf, ref)
    IN  IF Len(appended) >= NODE_BATCH_SIZE
        THEN _flush_node_batch(g, appended, failAt, failInd)
        ELSE Handled(g, appended, <<>>, {}, 0)

\* the edge applied with the node buffer left as it is
HandleEdgeWithoutFlush(g, buf, ref, failAt, failInd, edgeFail) ==
    LET r == IF edgeFail THEN Result(g, TRUE) ELSE process_edge_event(g, EventOf(ref))
    IN  Handled(r.g, buf, <<Attempt(ref, "edge", ~r.raised, Len(buf))>>,
                IF edgeFail THEN {ref} ELSE {}, IF edgeFail THEN 1 ELSE 0)

\* _handle_edge_event
_handle_edge_event(g, buf, ref, failAt, failInd, edgeFail) ==
    LET f == _flush_node_batch(g, buf, failAt, failInd)
        r == IF edgeFail THEN Result(f.g, TRUE) ELSE process_edge_event(f.g, EventOf(ref))
    IN  Handled(r.g, f.buf,
                f.attempts \o <<Attempt(ref, "edge", ~r.raised, Len(f.buf))>>,
                f.limited \cup (IF edgeFail THEN {ref} ELSE {}),
                f.injected + (IF edgeFail THEN 1 ELSE 0))

\* the execute_query errors a handler call is given, within the budget
FaultChoices(n) ==
    {c \in [failAt : 0..n, failInd : SUBSET (1..n), edgeFail : BOOLEAN] :
        (IF c.failAt = 0 THEN 0 ELSE 1) + Cardinality(c.failInd)
            + (IF c.edgeFail THEN 1 ELSE 0) <= MaxFaults - faults}

FaultCost(c) ==
    (IF c.failAt = 0 THEN 0 ELSE 1) + Cardinality(c.failInd) + (IF c.edgeFail THEN 1 ELSE 0)

(***************************************************************************)
(* EventHubConsumerService.                                                *)
(***************************************************************************)
NoRun == [active |-> FALSE]
NoBatch == [active |-> FALSE]

\* no thread is inside execute_query
NoWorkers == [active |-> FALSE]

\* GraphNodeEvent.model_validate(data) / GraphEdgeEvent.model_validate(data)
\* accept the payload
ValidNode(body) == body.valid /\ body.event.kind = "node"
ValidEdge(body) == body.valid /\ body.event.kind = "edge"

\* _process_event with the JSONDecodeError handler left out
DispatchJsonErrorEscapes(body) ==
    IF ~body.json THEN "raise"
    ELSE IF body.has_node_type THEN (IF ValidNode(body) THEN "node" ELSE "skip")
    ELSE IF body.has_edge_type THEN (IF ValidEdge(body) THEN "edge" ELSE "skip")
    ELSE "skip"

\* _process_event with the edge_type test before the node_type test
DispatchEdgeFirst(body) ==
    IF ~body.json THEN "skip"
    ELSE IF body.has_edge_type THEN (IF ValidEdge(body) THEN "edge" ELSE "skip")
    ELSE IF body.has_node_type THEN (IF ValidNode(body) THEN "node" ELSE "skip")
    ELSE "skip"

\* the try block of _process_event: which handler the payload goes to.
\* "skip": nothing is called (JSONDecodeError, a validation error and an
\* unknown type are printed); "raise": an exception leaves _process_event.
Dispatch(body) ==
    IF ~body.json THEN "skip"
    ELSE IF body.has_node_type THEN (IF ValidNode(body) THEN "node" ELSE "skip")
    ELSE IF body.has_edge_type THEN (IF ValidEdge(body) THEN "edge" ELSE "skip")
    ELSE "skip"

\* _get_starting_positions_from_checkpoints: the dict partition -> offset of
\* the partitions that have a checkpoint
_get_starting_positions_from_checkpoints(store) ==
    [p \in {q \in Partitions : get_checkpoint(store, q).exists}
        |-> get_checkpoint(store, p).offset]

\* the position a partition gets when the dict passed as starting_position
\* has no entry for it (EventHubConsumerClient.receive_batch)
SDK_DEFAULT_POSITION == EARLIEST

\* the starting_position receive_batch passes on, looked up per partition
StartingPositionsPerPartition(store, starting_position, resume_from_checkpoint) ==
    LET checkpoint_positions == _get_starting_positions_from_checkpoints(store)
    IN  IF resume_from_checkpoint /\ DOMAIN checkpoint_positions # {}
        THEN [p \in Partitions |->
                IF p \in DOMAIN checkpoint_positions THEN checkpoint_positions[p]
                ELSE SDK_DEFAULT_POSITION]
        ELSE [p \in Partitions |-> starting_position]

\* index of the first event delivered from a starting position (an offset is
\* exclusive)
FirstIndex(p, pos) ==
    IF pos = EARLIEST THEN 1
    ELSE IF pos = LATEST THEN Len(log[p]) + 1
    ELSE pos[2] + 1

(***************************************************************************)
(* Actions.                                                                *)
(***************************************************************************)
\* EventHubService.send_events: a payload is appended to a partition
send_events(p, body) ==
    /\ AllEvents < MaxEvents
    /\ ~batch.active
    /\ log' = [log EXCEPT ![p] = Append(@, body)]
    /\ UNCHANGED <<graph, checkpoints, run, position, batch, node_event_batch,
                   handlerLog, engineLog, rateLimited, fatal, faults, runs>>
    /\ UNCHANGED <<serviceVars, utilityVars>>

\* receive_batch up to consumer.receive_batch taking its positions, in a new
\* GraphEventProcessor
receive_batch(starting_position, resume_from_checkpoint) ==
    /\ ~run.active
    /\ runs < MaxRuns
    /\ LET start == StartingPositionsPerPartition(checkpoints, starting_position,
                                                  resume_from_checkpoint)
       IN  /\ run' = [active |-> TRUE, starting_position |-> starting_position,
                      resume_from_checkpoint |-> resume_from_checkpoint,
                      start |-> start, stored |-> checkpoints,
                      first |-> [p \in Partitions |-> FirstIndex(p, start[p])]]
           /\ position' = [p \in Partitions |-> FirstIndex(p, start[p])]
    /\ runs' = runs + 1
    /\ batch' = NoBatch
    /\ node_event_batch' = <<>>
    /\ handlerLog' = <<>>
    /\ engineLog' = <<>>
    /\ rateLimited' = {}
    /\ fatal' = FALSE
    /\ UNCHANGED <<graph, log, checkpoints, faults>>
    /\ UNCHANGED <<serviceVars, utilityVars>>

\* on_event_batch called for a partition while an earlier call has not
\* returned
OnEventBatchOverlapping(p, n) ==
    /\ run.active /\ ~fatal
    /\ n >= 1
    /\ position[p] + n - 1 <= Len(log[p])
    /\ batch' = [active |-> TRUE, partition |-> p, first |-> position[p],
                 last |-> position[p] + n - 1, next |-> position[p],
                 phase |-> "events", saves |-> 0]
    /\ UNCHANGED <<graph, log, checkpoints, run, position, node_event_batch,
                   handlerLog, engineLog, rateLimited, fatal, faults, runs>>
    /\ UNCHANGED <<serviceVars, utilityVars>>

\* the SDK calls on_event_batch with the next n events of a partition
on_event_batch(p, n) ==
    /\ run.active /\ ~batch.active /\ ~fatal
    /\ n >= 1
    /\ position[p] + n - 1 <= Len(log[p])
    /\ batch' = [active |-> TRUE, partition |-> p, first |-> position[p],
                 last |-> position[p] + n - 1, next |-> position[p],
                 phase |-> "events", saves |-> 0]
    /\ UNCHANGED <<graph, log, checkpoints, run, position, node_event_batch,
                   handlerLog, engineLog, rateLimited, fatal, faults, runs>>
    /\ UNCHANGED <<serviceVars, utilityVars>>

\* _process_event on the next event of the batch: the handler, then the
\* checkpoint of that event
_process_event ==
    /\ batch.active /\ batch.phase = "events" /\ batch.next <= batch.last
    /\ LET p == batch.partition
           i == batch.next
           ref == <<p, i>>
           to == Dispatch(log[p][i])
       IN  \E c \in FaultChoices(Len(node_event_batch) + 1) :
             LET h == IF to = "node"
                      THEN _handle_node_event(graph, node_event_batch, ref,
                                              c.failAt, c.failInd)
                      ELSE IF to = "edge"
                      THEN _handle_edge_event(graph, node_event_batch, ref,
                                              c.failAt, c.failInd, c.edgeFail)
                      ELSE Handled(graph, node_event_batch, <<>>, {}, 0)
             IN  /\ FaultCost(c) = h.injected
                 /\ to = "edge" \/ ~c.edgeFail
                 /\ graph' = h.g
                 /\ node_event_batch' = h.buf
                 /\ engineLog' = engineLog \o h.attempts
                 /\ rateLimited' = rateLimited \cup h.limited
                 /\ faults' = faults + FaultCost(c)
                 /\ handlerLog' = IF to \in {"node", "edge"}
                                  THEN Append(handlerLog, [ref |-> ref, handler |-> to])
                                  ELSE handlerLog
                 /\ IF to = "raise"
                    THEN /\ fatal' = TRUE
                         /\ batch' = NoBatch
                         /\ UNCHANGED checkpoints
                    ELSE /\ fatal' = fatal
                         /\ checkpoints' = save_checkpoint(checkpoints, p, Offset(i),
                                                           SequenceNumber(i))
                         /\ batch' = [batch EXCEPT !.next = i + 1, !.saves = @ + 1]
    /\ UNCHANGED <<log, run, position, runs>>
    /\ UNCHANGED <<serviceVars, utilityVars>>

\* on_event_batch after its loop: the batch-complete handler
\* (GraphEventProcessor._flush_node_batch, set in start)
batch_complete ==
    /\ batch.active /\ batch.phase = "events" /\ batch.next > batch.last
    /\ \E c \in FaultChoices(Len(node_event_batch)) :
         LET h == _flush_node_batch(graph, node_event_batch, c.failAt, c.failInd)
         IN  /\ ~c.edgeFail
             /\ FaultCost(c) = h.injected
             /\ graph' = h.g
             /\ node_event_batch' = h.buf
             /\ engineLog' = engineLog \o h.attempts
             /\ rateLimited' = rateLimited \cup h.limited
             /\ faults' = faults + FaultCost(c)
    /\ batch' = [batch EXCEPT !.phase = "checkpoint"]
    /\ UNCHANGED <<log, checkpoints, run, position, handlerLog, fatal, runs>>
    /\ UNCHANGED <<serviceVars, utilityVars>>

\* on_event_batch: the checkpoint of the last event, and the batch is done
checkpoint_batch ==
    /\ batch.active /\ batch.phase = "checkpoint"
    /\ checkpoints' = save_checkpoint(checkpoints, batch.partition, Offset(batch.last),
                                      SequenceNumber(batch.last))
    /\ position' = [position EXCEPT ![batch.partition] = batch.last + 1]
    /\ batch' = NoBatch
    /\ UNCHANGED <<graph, log, run, node_event_batch, handlerLog, engineLog,
                   rateLimited, fatal, faults, runs>>
    /\ UNCHANGED <<serviceVars, utilityVars>>

\* the process dies: what it held in memory is gone
Crash ==
    /\ run.active
    /\ run' = NoRun
    /\ batch' = NoBatch
    /\ node_event_batch' = <<>>
    /\ handlerLog' = <<>>
    /\ engineLog' = <<>>
    /\ rateLimited' = {}
    /\ fatal' = FALSE
    /\ position' = [p \in Partitions |-> 1]
    /\ UNCHANGED <<graph, log, checkpoints, faults, runs>>
    /\ UNCHANGED <<serviceVars, utilityVars>>

Init ==
    /\ graph = EmptyGraph
    /\ log = [p \in Partitions |-> <<>>]
    /\ checkpoints = [p \in Partitions |-> NoCheckpoint]
    /\ run = NoRun
    /\ position = [p \in Partitions |-> 1]
    /\ batch = NoBatch
    /\ node_event_batch = <<>>
    /\ handlerLog = <<>>
    /\ engineLog = <<>>
    /\ rateLimited = {}
    /\ fatal = FALSE
    /\ faults = 0
    /\ runs = 0
    /\ service = InitService
    /\ query = NoQuery
    /\ now = 0
    /\ submitted = NoneSubmitted
    /\ producer = NoProducer
    /\ checkpoint_store = NoStore
    /\ maintenance = NoMaintenance
    /\ shutdown = NoShutdown
    /\ validated = NoneValidated
    /\ workers = NoWorkers

Next ==
    \/ \E p \in Partitions, body \in Payloads : send_events(p, body)
    \/ \E sp \in {EARLIEST, LATEST}, resume \in BOOLEAN : receive_batch(sp, resume)
    \/ \E p \in Partitions, n \in 1..MaxEvents : on_event_batch(p, n)
    \/ _process_event
    \/ batch_complete
    \/ checkpoint_batch
    \/ Crash

Spec == Init /\ [][Next]_vars

(***************************************************************************)
(* Properties of the consumer and its checkpoints (Spec).                  *)
(***************************************************************************)
IsMalformed(body) ==
    ~body.json \/ (~body.has_node_type /\ ~body.has_edge_type) \/ ~body.valid

\* index of the last event of partition p that _process_event has finished
\* in this run
ProcessedUpTo(p) ==
    IF batch.active /\ batch.partition = p THEN batch.next - 1 ELSE position[p] - 1

HandlerRefs == {handlerLog[k].ref : k \in 1..Len(handlerLog)}

\* C2: at-least-once delivery: no node event that still waits in the node
\* buffer is covered by the saved checkpoint of its partition (a crash now
\* would skip it for good).
C2_BufferedNotCheckpointed ==
    \A k \in 1..Len(node_event_batch) :
        ~Covered(node_event_batch[k][1], node_event_batch[k][2])

\* C3: within a batch the checkpoint is not written before the batch-complete
\* handler has run; it is written once, after it, for the last event.
C3_NoCheckpointInsideBatch ==
    (batch.active /\ batch.phase = "events") => batch.saves = 0

\* C4: with resume_from_checkpoint, each partition starts at its checkpoint's
\* offset when it has one and at the caller's starting_position otherwise.
C4_StartPerPartition ==
    (run.active /\ run.resume_from_checkpoint) =>
        \A p \in Partitions :
            run.start[p] = IF run.stored[p].exists THEN run.stored[p].offset
                           ELSE run.starting_position

\* C5: a partition's stored checkpoint never goes back: every step leaves it
\* in place or moves it to an equal or later sequence number.
C5_CheckpointMonotonic ==
    [][\A p \in Partitions :
          checkpoints[p].exists =>
              /\ checkpoints'[p].exists
              /\ checkpoints'[p].sequence_number >= checkpoints[p].sequence_number]_vars

\* C6: an event whose graph mutation ended in exhausted rate-limit retries is
\* not covered by the partition's checkpoint.
C6_RateLimitedNotCheckpointed ==
    \A ref \in rateLimited : ~Covered(ref[1], ref[2])

\* C7: a malformed payload (not JSON, no discriminator, failing validation)
\* reaches no handler and raises nothing, and the valid events processed
\* after it in the same partition have all reached a handler.
C7_MalformedSkipped ==
    /\ ~fatal
    /\ \A ref \in HandlerRefs : ~IsMalformed(log[ref[1]][ref[2]])
    /\ run.active =>
         \A p \in Partitions : \A i \in run.first[p]..ProcessedUpTo(p) :
             \A j \in (i + 1)..ProcessedUpTo(p) :
                 (IsMalformed(log[p][i]) /\ ~IsMalformed(log[p][j]))
                     => <<p, j>> \in HandlerRefs

\* a valid event reached its handler after a malformed payload of the same
\* partition was processed in the same run
C7_Witness ==
    /\ run.active
    /\ \E ref \in HandlerRefs :
         \E i \in run.first[ref[1]]..(ref[2] - 1) : IsMalformed(log[ref[1]][i])

\* C8: per partition the handlers are invoked in log order, once per valid
\* event, and the handler is the one of the discriminator: the node handler
\* when node_type is present, the edge handler when only edge_type is.
C8_OrderedDispatch ==
    /\ \A k, l \in 1..Len(handlerLog) :
         (k < l /\ handlerLog[k].ref[1] = handlerLog[l].ref[1])
             => handlerLog[k].ref[2] < handlerLog[l].ref[2]
    /\ \A k \in 1..Len(handlerLog) :
         LET body == log[handlerLog[k].ref[1]][handlerLog[k].ref[2]]
         IN  handlerLog[k].handler =
                IF body.has_node_type THEN "node" ELSE "edge"
    /\ run.active =>
         \A p \in Partitions : \A i \in run.first[p]..ProcessedUpTo(p) :
             ~IsMalformed(log[p][i]) => <<p, i>> \in HandlerRefs

\* an edge event and, after it, a payload with both discriminators were
\* dispatched in one partition
C8_Witness ==
    \E k, l \in 1..Len(handlerLog) :
        /\ k < l
        /\ handlerLog[k].ref[1] = handlerLog[l].ref[1]
        /\ handlerLog[k].handler = "edge"
        /\ handlerLog[l].handler = "node"
        /\ log[handlerLog[l].ref[1]][handlerLog[l].ref[2]].has_edge_type

(***************************************************************************)
(* SpecProcessor: the GraphEventProcessor handlers called with any         *)
(* sequence of events of one partition, as the consumer calls them.        *)
(***************************************************************************)
ProcessorEvents == {UpsertA, DeleteA, UpsertB, LikesAB}

consumerVars == <<checkpoints, run, position, batch, fatal, runs>>

\* the next event of the partition, when there is one
NextRef == <<"0", Len(handlerLog) + 1>>
HasNext == Len(handlerLog) < Len(log["0"])

\* self._on_node_event(node_event)
on_node_event ==
    /\ HasNext
    /\ EventOf(NextRef).kind = "node"
    /\ LET ref == NextRef
       IN  \E c \in FaultChoices(Len(node_event_batch) + 1) :
             LET h == _handle_node_event(graph, node_event_batch, ref,
                                         c.failAt, c.failInd)
             IN  /\ ~c.edgeFail
                 /\ FaultCost(c) = h.injected
                 /\ graph' = h.g
                 /\ node_event_batch' = h.buf
                 /\ engineLog' = engineLog \o h.attempts
                 /\ rateLimited' = rateLimited \cup h.limited
                 /\ faults' = faults + FaultCost(c)
                 /\ handlerLog' = Append(handlerLog, [ref |-> ref, handler |-> "node"])
    /\ UNCHANGED log
    /\ UNCHANGED consumerVars
    /\ UNCHANGED <<serviceVars, utilityVars>>

\* self._on_edge_event(edge_event)
on_edge_event ==
    /\ HasNext
    /\ EventOf(NextRef).kind = "edge"
    /\ LET ref == NextRef
       IN  \E c \in FaultChoices(Len(node_event_batch) + 1) :
             LET h == _handle_edge_event(graph, node_event_batch, ref,
                                         c.failAt, c.failInd, c.edgeFail)
             IN  /\ FaultCost(c) = h.injected
                 /\ graph' = h.g
                 /\ node_event_batch' = h.buf
                 /\ engineLog' = engineLog \o h.attempts
                 /\ rateLimited' = rateLimited \cup h.limited
                 /\ faults' = faults + FaultCost(c)
                 /\ handlerLog' = Append(handlerLog, [ref |-> ref, handler |-> "edge"])
    /\ UNCHANGED log
    /\ UNCHANGED consumerVars
    /\ UNCHANGED <<serviceVars, utilityVars>>

\* the batch-complete handler: _flush_node_batch
on_batch_complete ==
    /\ \E c \in FaultChoices(Len(node_event_batch)) :
         LET h == _flush_node_batch(graph, node_event_batch, c.failAt, c.failInd)
         IN  /\ ~c.edgeFail
             /\ FaultCost(c) = h.injected
             /\ graph' = h.g
             /\ node_event_batch' = h.buf
             /\ engineLog' = engineLog \o h.attempts
             /\ rateLimited' = rateLimited \cup h.limited
             /\ faults' = faults + FaultCost(c)
    /\ UNCHANGED <<log, handlerLog>>
    /\ UNCHANGED consumerVars
    /\ UNCHANGED <<serviceVars, utilityVars>>

NextProcessor ==
    \/ on_node_event
    \/ on_edge_event
    \/ on_batch_complete

\* the events of the partition: any sequence of up to MaxDelivered events
InitProcessor ==
    /\ graph = EmptyGraph
    /\ log \in {[p \in Partitions |-> IF p = "0" THEN evs ELSE <<>>] :
                  evs \in UNION {[1..n -> {Wire(e) : e \in ProcessorEvents}] :
                                   n \in 0..MaxDelivered}}
    /\ checkpoints = [p \in Partitions |-> NoCheckpoint]
    /\ run = NoRun
    /\ position = [p \in Partitions |-> 1]
    /\ batch = NoBatch
    /\ node_event_batch = <<>>
    /\ handlerLog = <<>>
    /\ engineLog = <<>>
    /\ rateLimited = {}
    /\ fatal = FALSE
    /\ faults = 0
    /\ runs = 0
    /\ service = InitService
    /\ query = NoQuery
    /\ now = 0
    /\ submitted = NoneSubmitted
    /\ producer = NoProducer
    /\ checkpoint_store = NoStore
    /\ maintenance = NoMaintenance
    /\ shutdown = NoShutdown
    /\ validated = NoneValidated
    /\ workers = NoWorkers

SpecProcessor == InitProcessor /\ [][NextProcessor]_vars

\* C1: when an edge mutation is applied, the node buffer is empty and every
\* node event delivered before that edge has already been handed to the
\* graph engine.
C1_NodesBeforeEdge ==
    \A k \in 1..Len(engineLog) :
        engineLog[k].kind = "edge" =>
            /\ engineLog[k].pending = 0
            /\ \A m \in 1..Len(handlerLog) :
                 (handlerLog[m].handler = "node"
                  /\ handlerLog[m].ref[2] < engineLog[k].ref[2])
                     => \E j \in 1..(k - 1) : engineLog[j].ref = handlerLog[m].ref

\* two node events waited in the buffer when the edge arrived, and their
\* mutations are in front of the edge mutation
C1_Witness ==
    /\ Len(handlerLog) = 3
    /\ handlerLog[1].handler = "node" /\ handlerLog[2].handler = "node"
    /\ handlerLog[3].handler = "edge"
    /\ Len(engineLog) = 3
    /\ engineLog[3].kind = "edge" /\ engineLog[3].ok
    /\ engineLog[1].ok /\ engineLog[2].ok

\* C9: the graph mutations of a partition are executed in the order of its
\* events (stated for runs in which no mutation fails).
C9_MutationsInDeliveredOrder ==
    (faults = 0 /\ \A k \in 1..Len(engineLog) : engineLog[k].ok) =>
        \A k, l \in 1..Len(engineLog) :
            k < l => engineLog[k].ref[2] < engineLog[l].ref[2]

\* the step is a call of _handle_node_event
NodeEventHandled ==
    /\ Len(handlerLog') = Len(handlerLog) + 1
    /\ handlerLog'[Len(handlerLog')].handler = "node"

\* C28: after every handler call the node buffer holds fewer than
\* NODE_BATCH_SIZE events, and _handle_node_event flushes exactly when its
\* append makes the buffer reach NODE_BATCH_SIZE: then every buffered event
\* goes to the graph engine and the buffer is empty, otherwise the event is
\* appended and nothing goes to the engine.
C28_BufferBounded ==
    /\ [](Len(node_event_batch) < NODE_BATCH_SIZE)
    /\ [][NodeEventHandled =>
            IF Len(node_event_batch) + 1 >= NODE_BATCH_SIZE
            THEN /\ node_event_batch' = <<>>
                 /\ Len(engineLog') >= Len(engineLog) + NODE_BATCH_SIZE
            ELSE /\ node_event_batch' =
                       Append(node_event_batch, handlerLog'[Len(handlerLog')].ref)
                 /\ engineLog' = engineLog]_vars

\* NODE_BATCH_SIZE node events went to the engine in one flush, the delete
\* delivered first after the upserts delivered later, and the buffer is empty
C28_Witness ==
    /\ Len(handlerLog) = NODE_BATCH_SIZE
    /\ \A k \in 1..Len(handlerLog) : handlerLog[k].handler = "node"
    /\ Len(engineLog) = NODE_BATCH_SIZE
    /\ engineLog[NODE_BATCH_SIZE].ref[2] = 1
    /\ node_event_batch = <<>>

(***************************************************************************)
(* SpecFlush: the handlers with _flush_node_batch called on any buffer,    *)
(* the engine failing on any of its calls.                                 *)
(***************************************************************************)
\* _flush_node_batch on what is buffered; any query of the batch and any
\* of the individual ones may end in an error
flush_node_batch ==
    /\ node_event_batch # <<>>
    /\ \E failAt \in 0..Len(node_event_batch), failInd \in SUBSET (1..Len(node_event_batch)) :
         LET h == _flush_node_batch(graph, node_event_batch, failAt, failInd)
         IN  /\ (IF failAt = 0 THEN 0 ELSE 1) + Cardinality(failInd) = h.injected
             /\ graph' = h.g
             /\ node_event_batch' = h.buf
             /\ engineLog' = engineLog \o h.attempts
             /\ rateLimited' = rateLimited \cup h.limited
    /\ UNCHANGED <<log, handlerLog, faults>>
    /\ UNCHANGED consumerVars
    /\ UNCHANGED <<serviceVars, utilityVars>>

NextFlush ==
    \/ on_node_event
    \/ on_edge_event
    \/ flush_node_batch

SpecFlush == InitProcessor /\ [][NextFlush]_vars

RECURSIVE ApplyAttempts(_, _, _)
\* the graph after the attempts[k..] that succeeded, each the mutation of
\* its node event
ApplyAttempts(g, attempts, k) ==
    IF k > Len(attempts) THEN g
    ELSE ApplyAttempts(IF attempts[k].ok
                       THEN process_node_event(g, EventOf(attempts[k].ref)).g
                       ELSE g,
                       attempts, k + 1)

\* the attempts a step adds to the engine's log
Added == SubSeq(engineLog', Len(engineLog) + 1, Len(engineLog'))

\* the buffer the step flushes: what was buffered, with the event of the
\* step when it is a node event
Flushed ==
    IF NodeEventHandled
    THEN Append(node_event_batch, handlerLog'[Len(handlerLog')].ref)
    ELSE node_event_batch

\* the attempt at which the batch application of the step raised, 0 if none
RaisedAt ==
    LET failed == {j \in 1..Len(Added) : ~Added[j].ok}
    IN  IF failed = {} THEN 0
        ELSE LET j == CHOOSE i \in failed : \A l \in failed : i <= l
             IN  IF j <= Len(Flushed) THEN j ELSE 0

\* C29: when the batch application of the buffer raises, every event of
\* the buffer is then applied on its own, in buffer order, and the graph
\* the flush leaves is the one with every application that succeeded; the
\* buffer is empty.
C29_FallbackPerEvent ==
    [][(/\ NodeEventHandled \/ handlerLog' = handlerLog
        /\ Len(engineLog') > Len(engineLog)
        /\ RaisedAt > 0)
       => /\ Len(Added) = RaisedAt + Len(Flushed)
          /\ \A k \in 1..Len(Flushed) :
                /\ Added[RaisedAt + k].ref = Flushed[k]
                /\ Added[RaisedAt + k].kind = "node"
          /\ graph' = ApplyAttempts(graph, Added, 1)
          /\ node_event_batch' = <<>>]_vars

\* a flush of two events whose batch raised: on its own one of them failed
\* again and the other was applied
C29_Witness ==
    /\ Len(engineLog) = 3
    /\ ~engineLog[1].ok
    /\ \E k, l \in 2..3 : engineLog[k].ok /\ ~engineLog[l].ok
    /\ \A k \in 1..3 : engineLog[k].kind = "node"
    /\ graph.V # {}
    /\ node_event_batch = <<>>

\* C36: every flush returns with the node buffer empty, whatever failed in
\* it, and the events it hands to the engine are events no earlier flush has
\* handed to it: an event that failed is not tried again later.
C36_FlushEmptiesBuffer ==
    [][Len(engineLog') > Len(engineLog) =>
          /\ node_event_batch' = <<>>
          /\ \A k \in 1..Len(Added) :
                \A j \in 1..Len(engineLog) : engineLog[j].ref # Added[k].ref]_vars

\* the first event failed in the batch and on its own; the next flush
\* applied the second event only
C36_Witness ==
    /\ Len(engineLog) = 3
    /\ ~engineLog[1].ok /\ ~engineLog[2].ok
    /\ engineLog[1].ref = engineLog[2].ref
    /\ engineLog[3].ok /\ engineLog[3].kind = "node"
    /\ engineLog[3].ref # engineLog[1].ref
    /\ node_event_batch = <<>>

\* the attempts of the fallback loop of the step, one per buffered event
FallbackAttempts == SubSeq(Added, RaisedAt + 1, RaisedAt + Len(Flushed))

\* C37: when the batch application raised and the flush fell back, the graph
\* after the flush is the graph before it with every event of the buffer
\* applied once, in buffer order, but for the events whose application on
\* their own failed.
C37_FallbackEqualsOnceInOrder ==
    [][(/\ NodeEventHandled \/ handlerLog' = handlerLog
        /\ Len(engineLog') > Len(engineLog)
        /\ RaisedAt > 0)
       => graph' = ApplyAttempts(graph, FallbackAttempts, 1)]_vars

(***************************************************************************)
(* SpecGraph: the graph upsert engine applied to any sequence of node and  *)
(* edge events, every query succeeding at the transport.                   *)
(***************************************************************************)
Labels == {"A", "B"}
NodeTypes == {"user", "article"}
DataValues == {Absent, Null, "x", "y"}
DataMaps == [PropKeys -> DataValues]

NodeUpserts ==
    {GraphNodeEvent(l, t, UPSERT, d) : l \in Labels, t \in NodeTypes, d \in DataMaps}
NodeDeletes ==
    {GraphNodeEvent(l, "user", DELETE, EmptyData) : l \in Labels}
EdgeUpserts ==
    {GraphEdgeEvent("A", st, "B", tt, "likes", UPSERT, d) :
        st \in NodeTypes, tt \in NodeTypes, d \in [PropKeys -> {Absent, "x"}]}
EdgeDeletes ==
    {GraphEdgeEvent("A", "user", "B", "article", "likes", DELETE, EmptyData)}

\* GremlinService.process_node_event on the store; engineLog keeps the
\* latest call
ProcessNodeEvent(event) ==
    /\ LET r == process_node_event(graph, event)
       IN  /\ graph' = r.g
           /\ engineLog' = <<Attempt(event, "node", ~r.raised, 0)>>
    /\ UNCHANGED <<log, checkpoints, run, position, batch, node_event_batch,
                   handlerLog, rateLimited, fatal, faults, runs>>
    /\ UNCHANGED <<serviceVars, utilityVars>>

\* GremlinService.process_edge_event on the store
ProcessEdgeEvent(event) ==
    /\ LET r == process_edge_event(graph, event)
       IN  /\ graph' = r.g
           /\ engineLog' = <<Attempt(event, "edge", ~r.raised, 0)>>
    /\ UNCHANGED <<log, checkpoints, run, position, batch, node_event_batch,
                   handlerLog, rateLimited, fatal, faults, runs>>
    /\ UNCHANGED <<serviceVars, utilityVars>>

NextGraph ==
    \/ \E event \in NodeUpserts \cup NodeDeletes : ProcessNodeEvent(event)
    \/ \E event \in EdgeUpserts \cup EdgeDeletes : ProcessEdgeEvent(event)

SpecGraph == Init /\ [][NextGraph]_vars

\* C10: node upsert is idempotent: on every graph state, applying a node
\* UPSERT a second time leaves the graph as the first application left it.
C10_NodeUpsertIdempotent ==
    \A event \in NodeUpserts :
        LET once == process_node_event(graph, event)
            twice == process_node_event(once.g, event)
        IN  twice.g = once.g

\* the latest call was a node UPSERT that wrote a property of a vertex of its
\* own label, and the store also holds a vertex made by an edge upsert
C10_Witness ==
    /\ engineLog # <<>>
    /\ engineLog[1].kind = "node" /\ engineLog[1].ok
    /\ engineLog[1].ref.action = UPSERT
    /\ engineLog[1].ref.data["name"] = "x"
    /\ \E v \in graph.V : /\ v.id = engineLog[1].ref.label
                          /\ v.label = v.id
                          /\ v.props["name"] = "x"
    /\ \E v \in graph.V : v.label # v.id

\* the key the edge queries select an edge by
EdgeKey(e) == <<e.src[1], e.dst[1], e.label>>

\* C11: the store holds at most one edge for each (source id, target id,
\* edge type), after any sequence of node and edge upserts and deletes.
C11_OneEdgePerKey ==
    \A e1, e2 \in graph.E : EdgeKey(e1) = EdgeKey(e2) => e1 = e2

(***************************************************************************)
(* Re-delivery of a batch: the events of a batch reach the engine one by    *)
(* one, each through process_node_event or process_edge_event.              *)
(***************************************************************************)
MaxBatch == 2           \* events in a re-delivered batch

GraphEvents == NodeUpserts \cup NodeDeletes \cup EdgeUpserts \cup EdgeDeletes

Batches == UNION {[1..n -> GraphEvents] : n \in 1..MaxBatch}

ProcessEvent(g, event) ==
    IF event.kind = "node" THEN process_node_event(g, event)
    ELSE process_edge_event(g, event)

\* the events from position k on applied to g; raised: some call raised
RECURSIVE ApplyBatch(_, _, _)
ApplyBatch(g, events, k) ==
    IF k > Len(events) THEN Result(g, FALSE)
    ELSE LET r == ProcessEvent(g, events[k])
             rest == ApplyBatch(r.g, events, k + 1)
         IN  Result(rest.g, r.raised \/ rest.raised)

\* C12: replay safety: on every graph state, a batch that was applied without
\* error and is applied again raises no error and leaves the graph as the
\* first application left it.
C12_ReplaySafe ==
    \A events \in Batches :
        LET once == ApplyBatch(graph, events, 1)
            twice == ApplyBatch(once.g, events, 1)
        IN  ~once.raised => (~twice.raised /\ twice.g = once.g)

\* the latest call of the engine was this kind of event with this action and
\* completed without error
LatestCall(kind, action) ==
    /\ engineLog # <<>>
    /\ engineLog[1].kind = kind
    /\ engineLog[1].ok
    /\ engineLog[1].ref.action = action

\* C13 (as amended): after an edge UPSERT applied through process_edge_event
\* that completes without error, the source vertex and the target vertex both
\* exist in the store.
C13_EndpointsExistAfterUpsert ==
    LatestCall("edge", UPSERT) =>
        /\ HasVertex(graph, engineLog[1].ref.source_node_id)
        /\ HasVertex(graph, engineLog[1].ref.target_node_id)

\* an edge UPSERT has run on a source made by a node upsert and a target that
\* only an edge upsert has made
C13_Witness ==
    /\ LatestCall("edge", UPSERT)
    /\ \E v \in graph.V : v.id = engineLog[1].ref.source_node_id /\ v.label = v.id
    /\ \E v \in graph.V : /\ v.id = engineLog[1].ref.target_node_id
                          /\ v.label = engineLog[1].ref.target_node_type
    /\ \E e \in graph.E : EdgeKey(e) = <<engineLog[1].ref.source_node_id,
                                         engineLog[1].ref.target_node_id,
                                         engineLog[1].ref.edge_type>>

\* C13 as stated, for every EdgeEvent (UPSERT and DELETE) that completes
\* without error: both endpoint vertices exist afterwards.
C13_EndpointsExistAfterEdgeEvent ==
    (engineLog # <<>> /\ engineLog[1].kind = "edge" /\ engineLog[1].ok) =>
        /\ HasVertex(graph, engineLog[1].ref.source_node_id)
        /\ HasVertex(graph, engineLog[1].ref.target_node_id)

\* C14: at most one vertex per id, and a node UPSERT whose id already has a
\* vertex (made by a node upsert or as an endpoint by an edge upsert) updates
\* it in place: no error, no vertex added.
C14_OneVertexPerKey ==
    /\ \A v1, v2 \in graph.V : v1.id = v2.id => v1 = v2
    /\ \A event \in NodeUpserts :
          HasVertex(graph, event.label) =>
              LET r == process_node_event(graph, event)
              IN  ~r.raised /\ Cardinality(r.g.V) = Cardinality(graph.V)

\* C15: after a node DELETE no vertex with that id is left, after an edge
\* DELETE no edge with that key is left, and a delete of what does not exist
\* changes nothing and raises nothing.
C15_DeleteRemovesByKey ==
    /\ LatestCall("node", DELETE) => ~HasVertex(graph, engineLog[1].ref.label)
    /\ LatestCall("edge", DELETE) =>
          \A e \in graph.E : EdgeKey(e) # <<engineLog[1].ref.source_node_id,
                                            engineLog[1].ref.target_node_id,
                                            engineLog[1].ref.edge_type>>
    /\ \A event \in NodeDeletes :
          ~HasVertex(graph, event.label) =>
              process_node_event(graph, event) = Result(graph, FALSE)
    /\ \A event \in EdgeDeletes :
          (\A e \in graph.E : EdgeKey(e) # <<event.source_node_id, event.target_node_id,
                                             event.edge_type>>) =>
              process_edge_event(graph, event) = Result(graph, FALSE)

(***************************************************************************)
(* SpecQuery: execute_query called on a GremlinService whose submits end   *)
(* in any of the responses, while the clock moves.                         *)
(***************************************************************************)
ingestVars == <<graph, log, checkpoints, run, position, batch, node_event_batch,
                handlerLog, engineLog, rateLimited, fatal, faults, runs, utilityVars>>

Jitters == {0, 1}       \* random.uniform(0, 1), its two ends

\* execute_query up to its loop: _refresh_client_if_needed(); the call keeps
\* what it found at entry
execute_query ==
    /\ query.pc # "loop"
    /\ query.call < MaxCalls
    /\ service' = _refresh_client_if_needed(service, now)
    /\ query' = [NoQuery EXCEPT !.pc = "loop", !.call = query.call + 1,
                                !.expiring = _is_token_expired_or_expiring_soon(service, now),
                                !.before = service._client,
                                !.tokens = service.tokens]
    /\ UNCHANGED now
    /\ UNCHANGED <<ingestVars, submitted>>

\* one pass of the loop: self.gremlin_client.submit(query), and the branch
\* its outcome takes
submit(response, jitter) ==
    /\ query.pc = "loop"
    /\ (response = "429" /\ query.attempt < MAX_RETRIES - 1) \/ jitter = 0
    /\ LET svc == gremlin_client(service, now)
           q == [query EXCEPT !.responses = Append(@, response),
                              !.conns = Append(@, svc._client)]
       IN  CASE response = "ok" ->
                    /\ service' = svc
                    /\ query' = [q EXCEPT !.pc = "returned"]
             [] response = "401" ->
                    /\ service' = _close_client(svc)
                    /\ query' = LoopEnd(OnAuthError(q, response))
             [] response = "429" ->
                    /\ service' = svc
                    /\ query' = LoopEnd(OnRateLimit(q, response, jitter))
             [] OTHER ->
                    /\ service' = svc
                    /\ query' = [q EXCEPT !.pc = "raised", !.error = response]
    /\ UNCHANGED now
    /\ UNCHANGED <<ingestVars, submitted>>

\* time passes
Tick ==
    /\ now + TickSeconds <= MaxTime
    /\ now' = now + TickSeconds
    /\ UNCHANGED <<service, query>>
    /\ UNCHANGED <<ingestVars, submitted>>

NextQuery ==
    \/ execute_query
    \/ \E response \in Responses, jitter \in Jitters : submit(response, jitter)
    \/ Tick

SpecQuery == Init /\ [][NextQuery]_vars

Count(seq, x) == Cardinality({i \in 1..Len(seq) : seq[i] = x})

\* the responses so far are rate-limit responses only
OnlyRateLimited(seq) == \A i \in 1..Len(seq) : seq[i] = "429"

\* C16: k rate-limit responses in a row and then success: with k < 5 the call
\* returns after exactly k delayed retries; the fifth rate-limit response in
\* a row ends the retries and the call raises that rate-limit error.
C16_BackoffBound ==
    /\ (query.pc = "returned" /\ OnlyRateLimited(SubSeq(query.responses, 1,
                                                        Len(query.responses) - 1))) =>
          /\ Len(query.responses) - 1 < MAX_RETRIES
          /\ Len(query.delays) = Len(query.responses) - 1
    /\ (query.pc = "loop" /\ OnlyRateLimited(query.responses)) =>
          /\ Len(query.responses) < MAX_RETRIES
          /\ Len(query.delays) = Len(query.responses)
    /\ (query.pc = "raised" /\ OnlyRateLimited(query.responses)) =>
          /\ Len(query.responses) = MAX_RETRIES
          /\ query.error = "429" /\ query.last_exception = "429"

\* four rate-limit responses, then success after four delayed retries
C16_Witness ==
    /\ query.pc = "returned"
    /\ query.responses = <<"429", "429", "429", "429", "ok">>
    /\ Len(query.delays) = 4

\* C17: an authorization failure closes and clears the connection, the retry
\* follows without a sleep on a connection built with a newly fetched token,
\* an auth retry uses up none of the rate-limit retries (a call gives up on a
\* rate-limit error only at the fifth rate-limit response), and auth retries
\* are capped at 5.
C17_AuthRetry ==
    /\ \A i \in 1..Len(query.responses) :
          query.responses[i] = "401" =>
              /\ i < Len(query.responses) =>
                    query.conns[i + 1].token > query.conns[i].token
              /\ i = Len(query.responses) => ~service._client.open
    /\ Len(query.delays) <= Count(query.responses, "429")
    /\ (query.pc = "raised" /\ query.error = "429") =>
          Count(query.responses, "429") = MAX_RETRIES
    /\ Count(query.responses, "401") <= MAX_RETRIES

\* C18: at entry of execute_query, a missing token or one with less than 300
\* seconds left gets the connection closed and cleared and the query is
\* submitted on a connection built with a token fetched after the check; with
\* 300 seconds or more left the existing connection is kept and used.
C18_ProactiveRefresh ==
    query.pc # "idle" =>
        IF query.expiring
        THEN /\ query.conns = <<>> => ~service._client.open
             /\ query.conns # <<>> => query.conns[1].token > query.tokens
        ELSE query.before.open =>
                /\ query.conns = <<>> => service._client = query.before
                /\ query.conns # <<>> => query.conns[1] = query.before

\* a call found a connection whose token had less than 300 seconds left and
\* has submitted on a new one
C18_Witness ==
    /\ query.pc = "returned"
    /\ query.expiring /\ query.before.open
    /\ query.conns[1].token > query.before.token

\* the delay slept after the i-th submit of the call, a rate-limit response
\* that was retried
DelayAfter(i) == query.delays[Count(SubSeq(query.responses, 1, i), "429")]

\* the i-th submit was answered with a rate-limit error and retried
Retried429(i) ==
    /\ i \in 1..Len(query.responses)
    /\ query.responses[i] = "429"
    /\ i - 1 < MAX_RETRIES - 1

\* C34: the delay slept after failed attempt n is at least base * 2^n and at
\* most base * 2^n + 1 seconds, never more than the cap, and the delay after
\* attempt n + 1 starts at twice the lower bound of the delay after attempt n.
C34_BackoffDelays ==
    /\ \A i \in 1..Len(query.responses) :
          Retried429(i) =>
             /\ DelayAfter(i) >= BASE_DELAY_SECONDS * 2 ^ (i - 1)
             /\ DelayAfter(i) <= BASE_DELAY_SECONDS * 2 ^ (i - 1) + 1
             /\ DelayAfter(i) <= MAX_DELAY_SECONDS
             /\ Retried429(i + 1) =>
                   /\ DelayAfter(i + 1) >= 2 * (BASE_DELAY_SECONDS * 2 ^ (i - 1))
                   /\ DelayAfter(i + 1) <= 2 * (BASE_DELAY_SECONDS * 2 ^ (i - 1)) + 1
    /\ Len(query.delays) = Cardinality({i \in 1..Len(query.responses) : Retried429(i)})

\* four rate-limit responses in a row, slept 1, 3, 4 and 9 seconds
C34_Witness ==
    /\ query.pc = "loop"
    /\ query.responses = <<"429", "429", "429", "429">>
    /\ query.delays = <<1, 3, 4, 9>>

\* C35: a call makes at most MAX_RETRIES submits, after the last of which it
\* has ended; it ends by returning the result of its last submit or by
\* raising the error of its last submit, and never by the raise of
\* last_exception that follows the loop.
C35_AlwaysEndsInLoop ==
    /\ Len(query.responses) <= MAX_RETRIES
    /\ query.pc = "loop" => Len(query.responses) < MAX_RETRIES
    /\ query.pc # "fell_through"
    /\ query.pc = "returned" => query.responses[Len(query.responses)] = "ok"
    /\ query.pc = "raised" =>
          /\ query.error = query.responses[Len(query.responses)]
          /\ query.error \in {"429", "401", "error"}

\* auth and rate-limit errors in turn: the fifth submit fails and its error
\* is raised
C35_Witness ==
    /\ query.pc = "raised"
    /\ query.responses = <<"401", "429", "401", "429", "401">>
    /\ query.error = "401"

(***************************************************************************)
(* SpecBuild: the query builders of GremlinService called once with any    *)
(* strings and any data dict; submitted keeps the texts they hand to       *)
(* execute_query.                                                          *)
(***************************************************************************)
MaxLen == 3             \* symbols in a label or an id
MaxEntries == 2         \* items in a data dict

Symbols == {QUOTE, BACKSLASH, "a"}
Strings == UNION {[1..n -> Symbols] : n \in 0..MaxLen}
HostileStrings == {<<"a">>, <<BACKSLASH, QUOTE>>}

Keys == {<<"id">>, <<"partitionKey">>, <<"name">>, <<QUOTE>>}
Items == {Item(k, <<BACKSLASH, QUOTE>>) : k \in Keys} \cup {NoneItem(k) : k \in Keys}
Dicts ==
    {d \in UNION {[1..n -> Items] : n \in 0..MaxEntries} :
        \A i, j \in 1..Len(d) : i # j => d[i].key # d[j].key}

NodeExcludeKeys == {<<"id">>, <<"partitionKey">>}

\* the query of _upsert_node
UpsertNodeQuery(label, node_type, data) ==
    LET properties == PropertyString(data, NodeExcludeKeys)
    IN  <<"g.V(">> \o Quoted(label) \o <<").has(", QUOTE, "label", QUOTE, ", ">>
        \o Quoted(label) \o <<")", ".fold()", ".coalesce(", "  unfold()">>
        \o properties \o <<",", "  addV(">> \o Quoted(label)
        \o <<").property(", QUOTE, "id", QUOTE, ", ">> \o Quoted(label)
        \o <<").property(", QUOTE, "partitionKey", QUOTE, ", ">> \o Quoted(node_type)
        \o <<")">> \o properties \o <<")">>

\* the query of _delete_node
DeleteNodeQuery(label) ==
    <<"g.V(">> \o Quoted(label) \o <<").has(", QUOTE, "label", QUOTE, ", ">>
    \o Quoted(label) \o <<").drop()">>

\* the ensure-vertex query of _upsert_edge
EnsureVertexQuery(id, pk) ==
    <<"g.V(">> \o Quoted(id) \o <<")", ".fold()", ".coalesce(unfold(), addV(">>
    \o Quoted(pk) \o <<").property(", QUOTE, "id", QUOTE, ", ">> \o Quoted(id)
    \o <<").property(", QUOTE, "partitionKey", QUOTE, ", ">> \o Quoted(pk) \o <<"))">>

\* the three queries of _upsert_edge
UpsertEdgeQueries(source_id, source_pk, target_id, target_pk, edge_label, data) ==
    LET properties == PropertyString(data, {})
    IN  << EnsureVertexQuery(source_id, source_pk),
           EnsureVertexQuery(target_id, target_pk),
           <<"g.V(">> \o Quoted(source_id) \o <<")", ".outE(">> \o Quoted(edge_label)
           \o <<").where(inV().has(", QUOTE, "id", QUOTE, ", ">> \o Quoted(target_id)
           \o <<"))", ".fold()", ".coalesce(", "  unfold()">> \o properties
           \o <<",", "  g.V(">> \o Quoted(source_id) \o <<").addE(">>
           \o Quoted(edge_label) \o <<").to(g.V(">> \o Quoted(target_id) \o <<"))">>
           \o properties \o <<")">> >>

\* the query of _delete_edge
DeleteEdgeQuery(source_id, target_id, edge_label) ==
    <<"g.V(">> \o Quoted(source_id) \o <<")", ".outE(">> \o Quoted(edge_label)
    \o <<")", ".where(inV().has(", QUOTE, "id", QUOTE, ", ">> \o Quoted(target_id)
    \o <<"))", ".drop()">>

Submitted(builder, strings, data, exclude_keys, queries) ==
    [builder |-> builder, strings |-> strings, data |-> data,
     exclude_keys |-> exclude_keys, properties |-> PropertyString(data, exclude_keys),
     queries |-> queries]

\* _upsert_node(label, node_type, data)
build_upsert_node(label, node_type, data) ==
    /\ submitted.builder = "none"
    /\ submitted' = Submitted("_upsert_node", <<label, node_type>>, data, NodeExcludeKeys,
                              <<UpsertNodeQuery(label, node_type, data)>>)
    /\ UNCHANGED <<ingestVars, service, query, now>>

\* _delete_node(label)
build_delete_node(label) ==
    /\ submitted.builder = "none"
    /\ submitted' = Submitted("_delete_node", <<label>>, <<>>, {},
                              <<DeleteNodeQuery(label)>>)
    /\ UNCHANGED <<ingestVars, service, query, now>>

\* _upsert_edge(event)
build_upsert_edge(source_id, source_pk, target_id, target_pk, edge_label, data) ==
    /\ submitted.builder = "none"
    /\ submitted' = Submitted("_upsert_edge",
                              <<source_id, source_pk, target_id, target_pk, edge_label>>,
                              data, {},
                              UpsertEdgeQueries(source_id, source_pk, target_id,
                                                target_pk, edge_label, data))
    /\ UNCHANGED <<ingestVars, service, query, now>>

\* _delete_edge(event)
build_delete_edge(source_id, target_id, edge_label) ==
    /\ submitted.builder = "none"
    /\ submitted' = Submitted("_delete_edge", <<source_id, target_id, edge_label>>,
                              <<>>, {},
                              <<DeleteEdgeQuery(source_id, target_id, edge_label)>>)
    /\ UNCHANGED <<ingestVars, service, query, now>>

\* the builders are called once: the arguments to draw while nothing is built
Once(S) == IF submitted.builder = "none" THEN S ELSE {}

\* types as hostile as the ids, a different one in each place
SourceType == <<BACKSLASH>>
TargetType == <<QUOTE>>
EdgeLabel == <<"a", QUOTE>>

NextBuild ==
    \/ \E label \in Once(Strings), node_type \in HostileStrings, data \in Dicts :
          build_upsert_node(label, node_type, data)
    \/ \E label \in Once(Strings) : build_delete_node(label)
    \/ \E source_id \in Once(Strings), target_id \in HostileStrings, data \in Dicts :
          build_upsert_edge(source_id, SourceType, target_id, TargetType, EdgeLabel, data)
    \/ \E source_id \in Once(Strings), target_id \in HostileStrings :
          build_delete_edge(source_id, target_id, EdgeLabel)

SpecBuild == Init /\ [][NextBuild]_vars

\* the backslashes in a row that end at position j of s
RECURSIVE BackslashRun(_, _)
BackslashRun(s, j) ==
    IF j >= 1 /\ s[j] = BACKSLASH THEN 1 + BackslashRun(s, j - 1) ELSE 0

\* every quote of s follows an odd run of backslashes
NoUnescapedQuote(s) ==
    \A i \in 1..Len(s) : s[i] = QUOTE => BackslashRun(s, i - 1) % 2 = 1

\* the reading of an escaped string: a backslash gives the symbol after it
RECURSIVE Unescape(_)
Unescape(s) ==
    IF s = <<>> THEN <<>>
    ELSE IF Head(s) = BACKSLASH /\ Len(s) >= 2
    THEN <<s[2]>> \o Unescape(SubSeq(s, 3, Len(s)))
    ELSE <<Head(s)>> \o Unescape(Tail(s))

\* the position of the next quote of text from i on, 0 if there is none;
\* inside a literal a backslash takes the symbol after it along
RECURSIVE NextQuote(_, _, _)
NextQuote(text, i, open) ==
    IF i > Len(text) THEN 0
    ELSE IF open /\ text[i] = BACKSLASH /\ i < Len(text) THEN NextQuote(text, i + 2, open)
    ELSE IF text[i] = QUOTE THEN i
    ELSE NextQuote(text, i + 1, open)

\* the string literals of a query text from position i on, as the query
\* language reads them: a quote opens a literal, the next quote that no
\* backslash escapes closes it
RECURSIVE Literals(_, _, _, _)
Literals(text, i, open, current) ==
    LET j == NextQuote(text, i, open)
    IN  IF j = 0 THEN [closed |-> ~open, literals |-> <<>>]
        ELSE IF ~open THEN Literals(text, j + 1, TRUE, <<>>)
        ELSE LET rest == Literals(text, j + 1, FALSE, <<>>)
             IN  [closed |-> rest.closed,
                  literals |-> <<current \o Unescape(SubSeq(text, i, j - 1))>>
                                  \o rest.literals]

\* the keys and values of the items of data that are to be written
RECURSIVE Written(_, _)
Written(items, exclude_keys) ==
    IF items = <<>> THEN <<>>
    ELSE IF Head(items).key \in exclude_keys \/ Head(items).is_none
    THEN Written(Tail(items), exclude_keys)
    ELSE <<Head(items).key, Head(items).value>> \o Written(Tail(items), exclude_keys)

\* the strings each query of a builder is to carry as literals, in order
ExpectedLiterals(s) ==
    LET a == s.strings
        w == Written(s.data, s.exclude_keys)
        ensure(id, pk) == <<id, pk, <<"id">>, id, <<"partitionKey">>, pk>>
    IN  CASE s.builder = "_upsert_node" ->
                << <<a[1], <<"label">>, a[1]>> \o w
                   \o <<a[1], <<"id">>, a[1], <<"partitionKey">>, a[2]>> \o w >>
          [] s.builder = "_delete_node" ->
                << <<a[1], <<"label">>, a[1]>> >>
          [] s.builder = "_upsert_edge" ->
                << ensure(a[1], a[2]), ensure(a[3], a[4]),
                   <<a[1], a[5], <<"id">>, a[3]>> \o w \o <<a[1], a[5], a[3]>> \o w >>
          [] s.builder = "_delete_edge" ->
                << <<a[1], a[3], <<"id">>, a[2]>> >>

\* C19: for every string given to a builder, _escape leaves no unescaped
\* single quote and un-escaping gives the string back, and each query a builder makes reads as the literals it was given:
\* every label, type, id, key and value, unchanged and in its place.
C19_EscapeNeutralises ==
    /\ submitted.builder # "none" =>
          /\ \A i \in 1..Len(submitted.strings) :
                /\ NoUnescapedQuote(_escape(submitted.strings[i]))
                /\ Unescape(_escape(submitted.strings[i])) = submitted.strings[i]
          /\ Len(submitted.queries) = Len(ExpectedLiterals(submitted))
          /\ \A k \in 1..Len(submitted.queries) :
                Literals(submitted.queries[k], 1, FALSE, <<>>) =
                    [closed |-> TRUE, literals |-> ExpectedLiterals(submitted)[k]]

\* a node upsert whose label holds a backslash and a quote, with a property
\* whose key is a quote
C19_Witness ==
    /\ submitted.builder = "_upsert_node"
    /\ submitted.strings[1] = <<"a", BACKSLASH, QUOTE>>
    /\ submitted.data = <<Item(<<QUOTE>>, <<BACKSLASH, QUOTE>>)>>

\* C20: the property writes of _build_property_string are the items whose
\* value is not None and whose key is not excluded, in the order of the dict;
\* a None value is not written, and an empty or all-None dict gives no write.
C20_PropertyWrites ==
    submitted.builder \in {"_upsert_node", "_upsert_edge"} =>
        /\ Literals(submitted.properties, 1, FALSE, <<>>) =
              [closed |-> TRUE,
               literals |-> Written(submitted.data, submitted.exclude_keys)]
        /\ Count(submitted.properties, ".property(") * 2 =
              Len(Written(submitted.data, submitted.exclude_keys))
        /\ (\A i \in 1..Len(submitted.data) : submitted.data[i].is_none) =>
              submitted.properties = <<>>

\* a node upsert whose data has an excluded key and a None value around an
\* item that is written
C20_Witness ==
    /\ submitted.builder = "_upsert_node"
    /\ submitted.data = <<NoneItem(<<"name">>), Item(<<QUOTE>>, <<BACKSLASH, QUOTE>>)>>
    /\ submitted.properties # <<>>

(***************************************************************************)
(* SpecSend: EventHubService.send_events called once with any list of      *)
(* events; an EventDataBatch takes events up to its size limit and its add *)
(* raises ValueError beyond it.                                            *)
(***************************************************************************)
MaxSend == 4            \* events in the list given to send_events
MaxBatchBytes == 3      \* max_size_in_bytes of an EventDataBatch, scaled down

EventSizes == 1..(MaxBatchBytes + 1)

\* the lists of events: event i of a list is named i and has a size
EventLists ==
    UNION {{[i \in 1..n |-> [id |-> i, size |-> sizes[i]]] : sizes \in [1..n -> EventSizes]} :
             n \in 0..MaxSend}

RECURSIVE BatchSize(_)
BatchSize(b) == IF b = <<>> THEN 0 ELSE Head(b).size + BatchSize(Tail(b))

\* batch.add(event_data) raises ValueError
AddRaises(b, event) == BatchSize(b) + event.size > MaxBatchBytes

\* every event is sent in a batch of its own
AddEventAlone(p, event) ==
    IF p.batch = <<>> /\ ~AddRaises(<<>>, event)
    THEN [p EXCEPT !.batch = <<event>>, !.i = @ + 1]
    ELSE IF AddRaises(<<>>, event)
    THEN [p EXCEPT !.sent = Append(@, p.batch), !.batch = <<>>, !.pc = "raised"]
    ELSE [p EXCEPT !.sent = Append(@, p.batch), !.batch = <<event>>, !.i = @ + 1]

\* the body of the loop of send_events for one event
AddEvent(p, event) ==
    IF ~AddRaises(p.batch, event)
    THEN [p EXCEPT !.batch = Append(@, event), !.i = @ + 1]
    ELSE IF AddRaises(<<>>, event)
    THEN [p EXCEPT !.sent = Append(@, p.batch), !.batch = <<>>, !.pc = "raised"]
    ELSE [p EXCEPT !.sent = Append(@, p.batch), !.batch = <<event>>, !.i = @ + 1]

\* send_events(events): nothing to do for an empty list, else create_batch
producer_send_events(events) ==
    /\ producer.pc = "idle"
    /\ producer' = [pc |-> IF events = <<>> THEN "done" ELSE "loop",
                    events |-> events, i |-> 1, batch |-> <<>>, sent |-> <<>>]
    /\ UNCHANGED <<graph, log, checkpoints, run, position, batch, node_event_batch,
                   handlerLog, engineLog, rateLimited, fatal, faults, runs>>
    /\ UNCHANGED <<serviceVars, checkpoint_store, maintenance, shutdown, validated, workers>>

\* one pass of the loop
producer_add ==
    /\ producer.pc = "loop"
    /\ producer.i <= Len(producer.events)
    /\ producer' = AddEvent(producer, producer.events[producer.i])
    /\ UNCHANGED <<graph, log, checkpoints, run, position, batch, node_event_batch,
                   handlerLog, engineLog, rateLimited, fatal, faults, runs>>
    /\ UNCHANGED <<serviceVars, checkpoint_store, maintenance, shutdown, validated, workers>>

\* after the loop: the remaining events are sent
producer_send_remaining ==
    /\ producer.pc = "loop"
    /\ producer.i > Len(producer.events)
    /\ producer' = [producer EXCEPT
                      !.sent = IF Len(producer.batch) > 0 THEN Append(@, producer.batch) ELSE @,
                      !.batch = <<>>, !.pc = "done"]
    /\ UNCHANGED <<graph, log, checkpoints, run, position, batch, node_event_batch,
                   handlerLog, engineLog, rateLimited, fatal, faults, runs>>
    /\ UNCHANGED <<serviceVars, checkpoint_store, maintenance, shutdown, validated, workers>>

\* send_events is called once: the lists to draw while it has not been
OnceIdle(S) == IF producer.pc = "idle" THEN S ELSE {}

NextSend ==
    \/ \E events \in OnceIdle(EventLists) : producer_send_events(events)
    \/ producer_add
    \/ producer_send_remaining

SpecSend == Init /\ [][NextSend]_vars

RECURSIVE Concat(_)
Concat(batches) == IF batches = <<>> THEN <<>> ELSE Head(batches) \o Concat(Tail(batches))

\* each event of the list fits into an empty batch
EachFits(events) == \A i \in 1..Len(events) : ~AddRaises(<<>>, events[i])

\* C21: for a list whose events each fit into an empty batch, send_events
\* sends every event once and in order, no batch is over the limit, and a
\* batch is sent and a new one begun only when the next event would not fit.
C21_SendEveryEventOnce ==
    (producer.pc # "idle" /\ EachFits(producer.events)) =>
        /\ producer.pc # "raised"
        /\ \A k \in 1..Len(producer.sent) :
              /\ producer.sent[k] # <<>>
              /\ BatchSize(producer.sent[k]) <= MaxBatchBytes
        /\ BatchSize(producer.batch) <= MaxBatchBytes
        /\ Concat(producer.sent) \o producer.batch
              = SubSeq(producer.events, 1, producer.i - 1)
        /\ \A k \in 1..Len(producer.sent) :
              LET all == Concat(producer.sent) \o producer.batch
                  next == Len(Concat(SubSeq(producer.sent, 1, k))) + 1
              IN  next <= Len(all) => AddRaises(producer.sent[k], all[next])
        /\ producer.pc = "done" =>
              /\ producer.i = Len(producer.events) + 1
              /\ Concat(producer.sent) = producer.events

\* four events that fit have been sent in more than one batch, one of them
\* holding two events
C21_Witness ==
    /\ producer.pc = "done"
    /\ Len(producer.events) = 4 /\ EachFits(producer.events)
    /\ Len(producer.sent) = 3
    /\ \E k \in 1..3 : Len(producer.sent[k]) = 2

\* C39: every batch send_events has passed to send_batch holds at least one
\* event, and for an empty list nothing is passed to send_batch.
C39_NoEmptyBatchSent ==
    producer.pc # "idle" =>
       /\ \A k \in 1..Len(producer.sent) : producer.sent[k] # <<>>
       /\ producer.events = <<>> => producer.sent = <<>>

(***************************************************************************)
(* SpecStore: LocalCheckpointStore over one checkpoint directory, used     *)
(* with any namespace, event hub, consumer group and partition, by store   *)
(* instances that come and go with the process.                            *)
(***************************************************************************)
MaxSaves == 2           \* save_checkpoint calls

Namespaces == {<<"ns1">>, <<"ns2">>}
EventHubs == {<<"h">>, <<"h", "_", "g">>}
ConsumerGroups == {<<"$", "c">>, <<"g", "_", "$", "c">>}

CheckpointKeys ==
    [fully_qualified_namespace : Namespaces, eventhub_name : EventHubs,
     consumer_group : ConsumerGroups, partition_id : {<<p>> : p \in Partitions}]

\* _get_checkpoint_path
_get_checkpoint_path(key) ==
    LET safe_name == Replace(Replace(key.eventhub_name \o <<"_">> \o key.consumer_group
                                         \o <<"_">> \o key.partition_id,
                                     "/", <<"_">>),
                             "$", <<"_">>)
    IN  <<".checkpoints", "/">> \o safe_name \o <<".json">>

\* json.dump of {"offset": offset, "sequence_number": sequence_number}: the
\* text keeps a string as a string and an int as a number
JsonDump(offset, sequence_number) ==
    << <<"offset", "string", offset>>, <<"sequence_number", "number", sequence_number>> >>

\* json.load: the dict of the text
JsonLoad(text) ==
    [exists |-> TRUE, offset |-> text[1][3], sequence_number |-> text[2][3]]

\* get_checkpoint on the files of the directory: None when the path does not
\* exist
ReadCheckpoint(files, key) ==
    IF _get_checkpoint_path(key) \in DOMAIN files
    THEN JsonLoad(files[_get_checkpoint_path(key)])
    ELSE NoCheckpoint

\* a save that leaves a file that exists as it is
WriteCheckpointOnce(files, key, offset, sequence_number) ==
    LET path == _get_checkpoint_path(key)
    IN  [f \in DOMAIN files \cup {path} |->
            IF f \in DOMAIN files THEN files[f] ELSE JsonDump(offset, sequence_number)]

\* save_checkpoint on the files of the directory: open(path, "w")
WriteCheckpoint(files, key, offset, sequence_number) ==
    LET path == _get_checkpoint_path(key)
    IN  [f \in DOMAIN files \cup {path} |->
            IF f = path THEN JsonDump(offset, sequence_number) ELSE files[f]]

serviceAndOthers == <<serviceVars, producer, maintenance, shutdown, validated, workers>>

\* LocalCheckpointStore(): the first instance, or a new one after a restart
store_init ==
    /\ checkpoint_store.call.op # "none" \/ ~("instance" \in DOMAIN checkpoint_store)
    /\ IF "instance" \in DOMAIN checkpoint_store
       THEN /\ checkpoint_store.instance < MaxRuns
            /\ checkpoint_store' = [checkpoint_store EXCEPT !.instance = @ + 1,
                                                            !.call = [op |-> "init"]]
       ELSE checkpoint_store' = [files |-> checkpoint_store.files, instance |-> 1,
                                 saves |-> 0, saved |-> <<>>, writer |-> <<>>, call |-> [op |-> "init"]]
    /\ UNCHANGED <<graph, log, checkpoints, run, position, batch, node_event_batch,
                   handlerLog, engineLog, rateLimited, fatal, faults, runs>>
    /\ UNCHANGED serviceAndOthers

\* save_checkpoint; the position saved is that of the n-th event saved
store_save_checkpoint(key) ==
    /\ "instance" \in DOMAIN checkpoint_store
    /\ checkpoint_store.saves < MaxSaves
    /\ LET n == checkpoint_store.saves + 1
       IN  checkpoint_store' =
              [checkpoint_store EXCEPT
                 !.files = WriteCheckpoint(@, key, Offset(n), SequenceNumber(n)),
                 !.saves = n,
                 !.saved = [k \in DOMAIN @ \cup {key} |->
                              IF k = key
                              THEN [exists |-> TRUE, offset |-> Offset(n),
                                    sequence_number |-> SequenceNumber(n)]
                              ELSE @[k]],
                 !.writer = [k \in DOMAIN @ \cup {key} |->
                               IF k = key THEN checkpoint_store.instance ELSE @[k]],
                 !.call = [op |-> "save", key |-> key, instance |-> checkpoint_store.instance]]
    /\ UNCHANGED <<graph, log, checkpoints, run, position, batch, node_event_batch,
                   handlerLog, engineLog, rateLimited, fatal, faults, runs>>
    /\ UNCHANGED serviceAndOthers

\* get_checkpoint; the call keeps what it returned
store_get_checkpoint(key) ==
    /\ "instance" \in DOMAIN checkpoint_store
    /\ checkpoint_store.call.op # "get"
    /\ checkpoint_store' =
          [checkpoint_store EXCEPT
             !.call = [op |-> "get", key |-> key, instance |-> checkpoint_store.instance,
                       result |-> ReadCheckpoint(checkpoint_store.files, key)]]
    /\ UNCHANGED <<graph, log, checkpoints, run, position, batch, node_event_batch,
                   handlerLog, engineLog, rateLimited, fatal, faults, runs>>
    /\ UNCHANGED serviceAndOthers

NextStore ==
    \/ store_init
    \/ \E key \in CheckpointKeys : store_save_checkpoint(key)
    \/ \E key \in CheckpointKeys : store_get_checkpoint(key)

SpecStore == Init /\ [][NextStore]_vars

\* the two keys are of one consumer: they differ in the partition at most
SameConsumer(k1, k2) ==
    /\ k1.fully_qualified_namespace = k2.fully_qualified_namespace
    /\ k1.eventhub_name = k2.eventhub_name
    /\ k1.consumer_group = k2.consumer_group

\* C22: for the partitions of one consumer, get_checkpoint returns None for a
\* partition never saved and otherwise exactly the offset and sequence number
\* of the latest save_checkpoint for that partition, whichever store instance
\* over the same directory made the save.
C22_CheckpointRoundTrip ==
    (/\ checkpoint_store.call.op = "get"
     /\ \A k \in DOMAIN checkpoint_store.saved : SameConsumer(k, checkpoint_store.call.key))
    => checkpoint_store.call.result =
          IF checkpoint_store.call.key \in DOMAIN checkpoint_store.saved
          THEN checkpoint_store.saved[checkpoint_store.call.key]
          ELSE NoCheckpoint

\* a partition saved twice by the first instance is read by the second one
C22_Witness ==
    /\ checkpoint_store.call.op = "get"
    /\ checkpoint_store.call.instance = 2
    /\ checkpoint_store.saves = 2
    /\ DOMAIN checkpoint_store.saved = {checkpoint_store.call.key}
    /\ checkpoint_store.writer[checkpoint_store.call.key] = 1
    /\ checkpoint_store.call.result.exists
    /\ checkpoint_store.call.result.offset = Offset(2)

\* C23: a save_checkpoint under one (namespace, event hub, consumer group,
\* partition) key leaves what get_checkpoint returns for every other key as
\* it was.
C23_KeysAreIndependent ==
    [][\A other \in CheckpointKeys :
          (/\ "instance" \in DOMAIN checkpoint_store
           /\ checkpoint_store'.call.op = "save"
           /\ checkpoint_store'.saves = checkpoint_store.saves + 1
           /\ other # checkpoint_store'.call.key)
          => ReadCheckpoint(checkpoint_store'.files, other)
                = ReadCheckpoint(checkpoint_store.files, other)]_vars

(***************************************************************************)
(* SpecMaintenance: the clear_events utility run between two runs of the   *)
(* consumer, over the checkpoint files of the consumer's event hub and     *)
(* consumer group.  The graph engine does not fail here.                   *)
(***************************************************************************)
\* get_partition_properties: last_enqueued_offset and
\* last_enqueued_sequence_number; "-1" and -1 for a partition with no event
last_enqueued(p) ==
    IF Len(log[p]) = 0
    THEN [exists |-> TRUE, offset |-> EARLIEST, sequence_number |-> -1]
    ELSE [exists |-> TRUE, offset |-> Offset(Len(log[p])),
          sequence_number |-> SequenceNumber(Len(log[p]))]

\* what the utility did, and when: the runs started and the events enqueued
\* by then
Maintained(op) ==
    [op |-> op, runs |-> runs, enqueued |-> [p \in Partitions |-> Len(log[p])]]

\* clear_checkpoints: every *.json file of the directory is deleted
clear_checkpoints ==
    /\ ~run.active
    /\ maintenance.op = "none"
    /\ checkpoints' = [p \in Partitions |-> NoCheckpoint]
    /\ maintenance' = Maintained("clear")
    /\ UNCHANGED <<graph, log, run, position, batch, node_event_batch, handlerLog,
                   engineLog, rateLimited, fatal, faults, runs>>
    /\ UNCHANGED <<serviceVars, producer, checkpoint_store, shutdown, validated, workers>>

\* set_checkpoints_to_latest: one file per partition, with the position of
\* the last event enqueued
set_checkpoints_to_latest ==
    /\ ~run.active
    /\ maintenance.op = "none"
    /\ checkpoints' = [p \in Partitions |-> last_enqueued(p)]
    /\ maintenance' = Maintained("latest")
    /\ UNCHANGED <<graph, log, run, position, batch, node_event_batch, handlerLog,
                   engineLog, rateLimited, fatal, faults, runs>>
    /\ UNCHANGED <<serviceVars, producer, checkpoint_store, shutdown, validated, workers>>

\* process_all_events
process_all_events == receive_batch(EARLIEST, TRUE)

\* process_new_events, what running the module does
process_new_events == receive_batch(LATEST, TRUE)

InitMaintenance ==
    /\ graph = EmptyGraph
    /\ log = [p \in Partitions |-> <<>>]
    /\ checkpoints = [p \in Partitions |-> NoCheckpoint]
    /\ run = NoRun
    /\ position = [p \in Partitions |-> 1]
    /\ batch = NoBatch
    /\ node_event_batch = <<>>
    /\ handlerLog = <<>>
    /\ engineLog = <<>>
    /\ rateLimited = {}
    /\ fatal = FALSE
    /\ faults = MaxFaults
    /\ runs = 0
    /\ service = InitService
    /\ query = NoQuery
    /\ now = 0
    /\ submitted = NoneSubmitted
    /\ producer = NoProducer
    /\ checkpoint_store = NoStore
    /\ maintenance = NoMaintenance
    /\ shutdown = NoShutdown
    /\ validated = NoneValidated
    /\ workers = NoWorkers

NextMaintenance ==
    \/ \E p \in Partitions : send_events(p, Wire(UpsertA))
    \/ process_all_events
    \/ process_new_events
    \/ \E p \in Partitions, n \in 1..MaxEvents : on_event_batch(p, n)
    \/ _process_event
    \/ batch_complete
    \/ checkpoint_batch
    \/ Crash
    \/ clear_checkpoints
    \/ set_checkpoints_to_latest

SpecMaintenance == InitMaintenance /\ [][NextMaintenance]_vars

\* no consumer has started since the utility ran
NoRunSince == maintenance.op # "none" /\ runs = maintenance.runs

\* the consumer running is the first one started after the utility ran
NextRun == maintenance.op # "none" /\ run.active /\ runs = maintenance.runs + 1

\* C24: after set_checkpoints_to_latest every partition's checkpoint is the
\* position of its last enqueued event and the next consumer run delivers no
\* event enqueued before the reset; after clear_checkpoints no partition has
\* a checkpoint and the next consumer run starts every partition at the
\* beginning of the log.
C24_MaintenanceReset ==
    /\ (maintenance.op = "latest" /\ NoRunSince) =>
          \A p \in Partitions :
             /\ get_checkpoint(checkpoints, p).exists
             /\ get_checkpoint(checkpoints, p).sequence_number
                   = SequenceNumber(maintenance.enqueued[p])
    /\ (maintenance.op = "latest" /\ NextRun) =>
          \A p \in Partitions : run.first[p] > maintenance.enqueued[p]
    /\ (maintenance.op = "clear" /\ NoRunSince) =>
          \A p \in Partitions : ~get_checkpoint(checkpoints, p).exists
    /\ (maintenance.op = "clear" /\ NextRun) =>
          \A p \in Partitions : run.first[p] = 1

(***************************************************************************)
(* SpecShutdown: a run of GraphEventProcessor that a signal ends.  The     *)
(* steps of stop keep what is buffered and which connections are open      *)
(* after each statement.                                                   *)
(***************************************************************************)
Step(name, buffered, consumer_open, gremlin_open) ==
    [step |-> name, buffered |-> buffered, consumer_open |-> consumer_open,
     gremlin_open |-> gremlin_open]

\* the statements of stop after the flush, in their order
StopAfterFlush(h) ==
    [h |-> h,
     steps |-> << Step("_flush_node_batch", Len(h.buf), TRUE, TRUE),
                  Step("consumer_service.close", Len(h.buf), FALSE, TRUE),
                  Step("gremlin_service.close", Len(h.buf), FALSE, FALSE) >>]

\* stop, from a running processor
stop(g, buf, failAt, failInd) ==
    StopAfterFlush(_flush_node_batch(g, buf, failAt, failInd))

\* the processor after stop has returned s and sys.exit(0) has unwound
\* receive_batch and whatever batch it was in
Exited(s, cost) ==
    /\ cost = s.h.injected
    /\ graph' = s.h.g
    /\ node_event_batch' = s.h.buf
    /\ engineLog' = engineLog \o s.h.attempts
    /\ rateLimited' = rateLimited \cup s.h.limited
    /\ faults' = faults + cost
    /\ shutdown' = [stopped |-> TRUE, steps |-> s.steps, runs |-> runs,
                    in_flight |-> batch, buffered |-> Len(node_event_batch)]
    /\ run' = NoRun
    /\ batch' = NoBatch

\* _signal_handler, between two steps of the consumer: stop, then sys.exit(0)
_signal_handler ==
    /\ run.active
    /\ ~shutdown.stopped
    /\ \E c \in FaultChoices(Len(node_event_batch)) :
         /\ ~c.edgeFail
         /\ Exited(stop(graph, node_event_batch, c.failAt, c.failInd), FaultCost(c))
    /\ UNCHANGED <<log, checkpoints, position, handlerLog, fatal, runs>>
    /\ UNCHANGED <<serviceVars, producer, checkpoint_store, maintenance, validated, workers>>

NextShutdown ==
    \/ \E p \in Partitions, e \in {UpsertA, LikesAB} : send_events(p, Wire(e))
    \/ process_all_events
    \/ \E p \in Partitions, n \in 1..MaxEvents : on_event_batch(p, n)
    \/ _process_event
    \/ batch_complete
    \/ checkpoint_batch
    \/ _signal_handler

SpecShutdown == InitMaintenance /\ [][NextShutdown]_vars

\* C25: in stop the node buffer is flushed before any connection is closed,
\* and the graph engine's connection is closed before the consumer's.
C25_StopOrder ==
    shutdown.stopped =>
       \A k \in 1..Len(shutdown.steps) :
          /\ (~shutdown.steps[k].consumer_open \/ ~shutdown.steps[k].gremlin_open)
                => shutdown.steps[k].buffered = 0
          /\ ~shutdown.steps[k].consumer_open => ~shutdown.steps[k].gremlin_open

\* C26: when the signal has ended the run, no batch is pulled any more, the
\* batch that was in flight has been processed to its end with its
\* checkpoint saved, and the node buffer has been flushed.
C26_GracefulShutdown ==
    (shutdown.stopped /\ runs = shutdown.runs) =>
       /\ ~batch.active
       /\ node_event_batch = <<>>
       /\ shutdown.in_flight.active =>
             /\ shutdown.in_flight.next > shutdown.in_flight.last
             /\ get_checkpoint(checkpoints, shutdown.in_flight.partition).exists
             /\ get_checkpoint(checkpoints, shutdown.in_flight.partition).sequence_number
                   >= SequenceNumber(shutdown.in_flight.last)

(***************************************************************************)
(* SpecValidate: the event models as pydantic validates them, from the     *)
(* field declarations of GraphNodeEvent and GraphEdgeEvent.  A payload     *)
(* gives every field a value or omits it.                                  *)
(***************************************************************************)
Omitted == "<omitted>"  \* a field the payload does not have

NodeTypeValues == {"user", "article", "product", "product_type", "product_group",
                   "colour_group", "department", "index_group"}
Actions == {UPSERT, DELETE}
EdgeTypes == {"purchased", "belongs_to", "likes"}

\* the fields of a model, in the order of their declaration
Fields(model) ==
    IF model = "GraphNodeEvent"
    THEN <<"event_id", "node_type", "data", "action", "label">>
    ELSE <<"event_id", "edge_type", "source_node_id", "source_node_type",
           "target_node_id", "target_node_type", "data", "action">>

\* the fields declared with Field(...): no default
RequiredFields(model) ==
    {Fields(model)[k] : k \in 1..Len(Fields(model))} \ {"data"}

\* the values the annotation of a field accepts
Accepts(field) ==
    CASE field = "event_id" -> {"uuid"}
      [] field \in {"node_type", "source_node_type", "target_node_type"} -> NodeTypeValues
      [] field = "edge_type" -> EdgeTypes
      [] field = "action" -> Actions
      [] field \in {"label", "source_node_id", "target_node_id"} -> {"A", "B"}
      [] field = "data" -> {"{}", "{name: Ann}"}

\* the values a payload may carry for a field: omitted, accepted ones and
\* one the annotation rejects
Carries(field) ==
    CASE field = "event_id" -> {Omitted, "uuid", "not-a-uuid"}
      [] field = "node_type" -> {Omitted, "user", "planet"}
      [] field = "source_node_type" -> {Omitted, "user"}
      [] field = "target_node_type" -> {Omitted, "article"}
      [] field = "edge_type" -> {Omitted, "likes", "hates"}
      [] field = "action" -> {Omitted, UPSERT, DELETE, "upsert", "MERGE"}
      [] field = "label" -> {Omitted, "A"}
      [] field = "source_node_id" -> {Omitted, "A"}
      [] field = "target_node_id" -> {Omitted, "B"}
      [] field = "data" -> {Omitted, "{}", "{name: Ann}", "a string"}

ModelPayloads(model) ==
    IF model = "GraphNodeEvent"
    THEN [event_id : Carries("event_id"), node_type : Carries("node_type"),
          data : Carries("data"), action : Carries("action"), label : Carries("label")]
    ELSE [event_id : Carries("event_id"), edge_type : Carries("edge_type"),
          source_node_id : Carries("source_node_id"),
          source_node_type : Carries("source_node_type"),
          target_node_id : Carries("target_node_id"),
          target_node_type : Carries("target_node_type"),
          data : Carries("data"), action : Carries("action")]

ErrorOf(field, type) == [loc |-> field, type |-> type]

\* validation that stops at the first field in error
FirstError(model, payload) ==
    LET bad == {k \in 1..Len(Fields(model)) :
                  \/ payload[Fields(model)[k]] = Omitted
                        /\ Fields(model)[k] \in RequiredFields(model)
                  \/ payload[Fields(model)[k]] # Omitted
                        /\ payload[Fields(model)[k]] \notin Accepts(Fields(model)[k])}
    IN  IF bad = {} THEN {}
        ELSE LET k == CHOOSE i \in bad : \A j \in bad : i <= j
             IN  {ErrorOf(Fields(model)[k],
                          IF payload[Fields(model)[k]] = Omitted THEN "missing" ELSE "invalid")}

\* the errors of a ValidationError: one for every required field that is
\* omitted and one for every value its annotation rejects
Errors(model, payload) ==
    {ErrorOf(f, "missing") : f \in {r \in RequiredFields(model) : payload[r] = Omitted}}
    \cup {ErrorOf(f, "invalid") :
            f \in {g \in DOMAIN payload : payload[g] # Omitted /\ payload[g] \notin Accepts(g)}}

\* field defaults: data = Field(default_factory=dict)
DefaultOf(field) == EmptyData

\* the value of a field of the model for the text the payload carries
Parsed(field, text) ==
    IF field # "data" THEN text
    ELSE IF text = "{}" THEN EmptyData
    ELSE [k \in PropKeys |-> "Ann"]

\* model_validate / the constructor
model_validate(model, payload) ==
    IF Errors(model, payload) # {}
    THEN [ok |-> FALSE, errors |-> Errors(model, payload)]
    ELSE [ok |-> TRUE, errors |-> {},
          event |-> [f \in DOMAIN payload |->
                       IF payload[f] = Omitted THEN DefaultOf(f)
                       ELSE Parsed(f, payload[f])]]

\* GraphNodeEvent(**payload) or GraphEdgeEvent(**payload)
validate(model, payload) ==
    /\ validated.model = "none"
    /\ validated' = [model |-> model, payload |-> payload,
                     result |-> model_validate(model, payload)]
    /\ UNCHANGED <<graph, log, checkpoints, run, position, batch, node_event_batch,
                   handlerLog, engineLog, rateLimited, fatal, faults, runs>>
    /\ UNCHANGED <<serviceVars, producer, checkpoint_store, maintenance, shutdown, workers>>

\* the inputs are drawn for the first validation only
OnceValidated(S) == IF validated.model = "none" THEN S ELSE {}

NextValidate ==
    \/ \E payload \in OnceValidated(ModelPayloads("GraphNodeEvent")) :
          validate("GraphNodeEvent", payload)
    \/ \E payload \in OnceValidated(ModelPayloads("GraphEdgeEvent")) :
          validate("GraphEdgeEvent", payload)

SpecValidate == Init /\ [][NextValidate]_vars

\* the fields the claim names for a model
NamedRequired(model) ==
    IF model = "GraphNodeEvent" THEN {"event_id", "node_type", "action", "label"}
    ELSE {"event_id", "edge_type", "action"}

\* C27: a node event without event_id, node_type, action or label, or an
\* edge event without event_id, edge_type or action, is rejected with an
\* error that names every one of those fields that is missing; an accepted
\* event whose payload omits data has the empty map as data; and an event is
\* accepted only with action UPSERT or DELETE.
C27_ModelValidation ==
    validated.model # "none" =>
       /\ \A f \in NamedRequired(validated.model) :
             validated.payload[f] = Omitted =>
                /\ ~validated.result.ok
                /\ ErrorOf(f, "missing") \in validated.result.errors
       /\ (validated.result.ok /\ validated.payload["data"] = Omitted)
             => validated.result.event["data"] = EmptyData
       /\ validated.result.ok <=> validated.result.errors = {}
       /\ validated.result.ok => validated.payload["action"] \in {UPSERT, DELETE}
       /\ (validated.payload["action"] \notin {UPSERT, DELETE, Omitted})
             => ErrorOf("action", "invalid") \in validated.result.errors

\* a node event without action and label is rejected with both named
C27_Witness ==
    /\ validated.model = "GraphNodeEvent"
    /\ validated.payload["action"] = Omitted
    /\ validated.payload["label"] = Omitted
    /\ validated.payload["event_id"] = "uuid"
    /\ ~validated.result.ok
    /\ validated.result.errors = {ErrorOf("action", "missing"), ErrorOf("label", "missing")}

(***************************************************************************)
(* SpecGraphFaults: the graph upsert engine as in SpecGraph, with edge     *)
(* upserts that end after any number of their three queries (a query that  *)
(* raises, or the process dying between two of them).                      *)
(***************************************************************************)
\* the store after the first n of the three queries of _upsert_edge
UpsertEdgeQueriesDone(g, event, n) ==
    IF n = 0 THEN g
    ELSE IF n = 1 THEN EnsureVertex(g, event.source_node_id, event.source_node_type)
    ELSE IF n = 2
    THEN EnsureVertex(EnsureVertex(g, event.source_node_id, event.source_node_type),
                      event.target_node_id, event.target_node_type)
    ELSE _upsert_edge(g, event).g

\* _upsert_edge that stops after n of its queries
UpsertEdgeInterrupted(event, n) ==
    /\ graph' = UpsertEdgeQueriesDone(graph, event, n)
    /\ engineLog' = <<Attempt(event, "edge", FALSE, n)>>
    /\ UNCHANGED <<log, checkpoints, run, position, batch, node_event_batch,
                   handlerLog, rateLimited, fatal, faults, runs>>
    /\ UNCHANGED <<serviceVars, utilityVars>>

NextGraphFaults ==
    \/ \E event \in NodeUpserts \cup NodeDeletes : ProcessNodeEvent(event)
    \/ \E event \in EdgeUpserts \cup EdgeDeletes : ProcessEdgeEvent(event)
    \/ \E event \in EdgeUpserts, n \in 0..2 : UpsertEdgeInterrupted(event, n)

SpecGraphFaults == Init /\ [][NextGraphFaults]_vars

BatchStarts ==
    /\ batch'.active /\ batch' # batch
    /\ batch'.phase = "events" /\ batch'.next = batch'.first /\ batch'.saves = 0

Workers == {"w1", "w2"}

\* the 401/403 responses the server gives over one run
MaxAuthErrors == 2

\* self._client is None; the connections are numbered from 1
Unconnected == 0

\* GremlinService.__init__: no connection yet (self._client = Unconnected)
InitWorkers ==
    [active |-> TRUE,
     _client |-> Unconnected,                  \* self._client: None or a connection
     created |-> 0,                            \* connections made so far: 1..created
     closed |-> {},                            \* connections close() was called on
     absent |-> 1,                             \* times self._client has become None
     pc |-> [w \in Workers |-> "idle"],
     held |-> [w \in Workers |-> Unconnected],        \* the reference the thread works on
     attempt |-> [w \in Workers |-> 0],
     calls |-> [w \in Workers |-> 0],
     auth_errors |-> 0,
     on_closed |-> {}]                         \* submits made on a closed connection

At(w, pc) == workers.active /\ workers.pc[w] = pc

\* what every step of a worker leaves alone
WorkersOnly ==
    UNCHANGED <<graph, log, checkpoints, run, position, batch, node_event_batch,
                handlerLog, engineLog, rateLimited, fatal, faults, runs,
                serviceVars, producer, checkpoint_store, maintenance, shutdown,
                validated>>

\* the service object is made and shared by the threads
gremlin_service_init ==
    /\ ~workers.active
    /\ workers' = InitWorkers
    /\ WorkersOnly

\* execute_query is called: the first pass of the retry loop
worker_execute_query(w) ==
    /\ At(w, "idle") /\ workers.calls[w] < 1
    /\ workers' = [workers EXCEPT !.pc[w] = "get", !.attempt[w] = 0,
                                  !.calls[w] = @ + 1]
    /\ WorkersOnly

\* gremlin_client: "if self._client is None"
worker_get(w) ==
    /\ At(w, "get")
    /\ workers' = [workers EXCEPT
                     !.pc[w] = IF workers._client = Unconnected THEN "create" ELSE "return"]
    /\ WorkersOnly

\* gremlin_client: "self._client = client.Client(...)"
worker_create(w) ==
    /\ At(w, "create")
    /\ workers' = [workers EXCEPT !._client = workers.created + 1,
                                  !.created = @ + 1,
                                  !.pc[w] = "return"]
    /\ WorkersOnly

\* gremlin_client: "return self._client"
worker_return(w) ==
    /\ At(w, "return")
    /\ workers' = [workers EXCEPT !.held[w] = workers._client, !.pc[w] = "submit"]
    /\ WorkersOnly

\* "self.gremlin_client.submit(query)": the result is returned, or the
\* server answers 401/403; a submit on a closed or missing connection raises
\* an error that is no GremlinServerError and leaves execute_query
worker_submit(w, response) ==
    /\ At(w, "submit")
    /\ response = "auth" => workers.auth_errors < MaxAuthErrors
    /\ LET dead == workers.held[w] = Unconnected \/ workers.held[w] \in workers.closed
       IN  workers' = [workers EXCEPT
              !.on_closed = IF dead THEN @ \cup {<<w, workers.held[w]>>} ELSE @,
              !.auth_errors = IF ~dead /\ response = "auth" THEN @ + 1 ELSE @,
              !.pc[w] = IF ~dead /\ response = "auth" THEN "close_test" ELSE "idle"]
    /\ WorkersOnly

\* _close_client: "if self._client is not None"
worker_close_test(w) ==
    /\ At(w, "close_test")
    /\ workers' = [workers EXCEPT
                     !.pc[w] = IF workers._client # Unconnected THEN "close" ELSE "retry"]
    /\ WorkersOnly

\* _close_client: "self._client.close()" inside try / except Exception
worker_close(w) ==
    /\ At(w, "close")
    /\ workers' = [workers EXCEPT
                     !.closed = IF workers._client # Unconnected THEN @ \cup {workers._client}
                                ELSE @,
                     !.pc[w] = "clear"]
    /\ WorkersOnly

\* _close_client: "self._client = Unconnected"
worker_clear(w) ==
    /\ At(w, "clear")
    /\ workers' = [workers EXCEPT
                     !._client = Unconnected,
                     !.absent = IF workers._client # Unconnected THEN @ + 1 ELSE @,
                     !.pc[w] = "retry"]
    /\ WorkersOnly

\* "if attempt < self.MAX_RETRIES - 1: continue", else raise
worker_retry(w) ==
    /\ At(w, "retry")
    /\ workers' = [workers EXCEPT
                     !.attempt[w] = @ + 1,
                     !.pc[w] = IF workers.attempt[w] < MAX_RETRIES - 1
                               THEN "get" ELSE "idle"]
    /\ WorkersOnly

NextWorkers ==
    \/ gremlin_service_init
    \/ \E w \in Workers :
       \/ worker_execute_query(w)
       \/ worker_get(w)
       \/ worker_create(w)
       \/ worker_return(w)
       \/ \E response \in {"ok", "auth"} : worker_submit(w, response)
       \/ worker_close_test(w)
       \/ worker_close(w)
       \/ worker_clear(w)
       \/ worker_retry(w)

SpecWorkers == Init /\ [][NextWorkers]_vars

\* C32: no thread submits a query on a connection that has been closed (or
\* on no connection), and no more connections are made than there were
\* times the service had none.
C32_ConnectionUnderMutualExclusion ==
    workers.active =>
       /\ workers.on_closed = {}
       /\ workers.created <= workers.absent

(***************************************************************************)
(* Errors of execute_query other than rate-limit and auth errors.  The     *)
(* handlers catch Exception, so what they do with a failed application     *)
(* does not depend on the kind of error: failAt, failInd and edgeFail      *)
(* stand for a connection or transport failure as well.                    *)
(***************************************************************************)
\* an application of a mutation has failed in this run
ApplicationFailed == \E k \in 1..Len(engineLog) : ~engineLog[k].ok

\* C33: when an application of a graph mutation has failed, the error has
\* left the event handlers and ended the iteration of the partition.
C33_TransportFailurePropagates ==
    (run.active /\ ApplicationFailed) => fatal

(***************************************************************************)
(* SpecReentry: stop, _signal_handler and _flush_node_batch statement by   *)
(* statement.  A signal handler runs between two statements of whatever    *)
(* the main thread is doing, on top of it; sys.exit(0) raises SystemExit,  *)
(* which no "except Exception" catches: it unwinds every frame, running    *)
(* the finally clauses on its way, down to the finally clause of start.    *)
(* shutdown holds the call stack (the last frame is the running one), the  *)
(* _running flag, the number of buffered node events and what has been     *)
(* done so far.                                                            *)
(***************************************************************************)
MaxSignals == 2

Frame(f, pc) == [f |-> f, pc |-> pc]

\* start up to its blocking receive_batch call: self._running = True
InitReentry ==
    [stopped |-> FALSE, steps |-> <<>>, reentry |-> TRUE,
     _running |-> TRUE,
     buffer |-> 0,                   \* len(self._node_event_batch)
     stack |-> <<Frame("start", "receive_batch")>>,
     signals |-> 0,
     flushes |-> 0,                  \* _flush_node_batch calls made by stop
     consumer_closes |-> 0,
     gremlin_closes |-> 0,
     overlap |-> FALSE]              \* a buffer was handed to the engine twice

Reentry == shutdown # NoShutdown /\ shutdown.reentry

Top == shutdown.stack[Len(shutdown.stack)]

Running(f, pc) == Reentry /\ ~shutdown.stopped /\ Top = Frame(f, pc)

Popped == SubSeq(shutdown.stack, 1, Len(shutdown.stack) - 1)

\* the running frame moves on to pc
Moved(pc) == Append(Popped, Frame(Top.f, pc))

\* a _flush_node_batch frame below the running one is inside its try block
FlushInProgress ==
    \E k \in 1..(Len(shutdown.stack) - 1) :
       shutdown.stack[k] = Frame("flush", "finally")

ReentryOnly ==
    UNCHANGED <<graph, log, checkpoints, run, position, batch, node_event_batch,
                handlerLog, engineLog, rateLimited, fatal, faults, runs,
                serviceVars, producer, checkpoint_store, maintenance, validated,
                workers>>

\* GraphEventProcessor.start
reentry_start ==
    /\ shutdown = NoShutdown
    /\ shutdown' = InitReentry
    /\ ReentryOnly

\* a node event is delivered: append, and flush at NODE_BATCH_SIZE
reentry_node_event ==
    /\ Running("start", "receive_batch")
    /\ shutdown.buffer < NODE_BATCH_SIZE
    /\ shutdown' = [shutdown EXCEPT
                      !.buffer = @ + 1,
                      !.stack = IF shutdown.buffer + 1 >= NODE_BATCH_SIZE
                                THEN Append(@, Frame("flush", "test")) ELSE @]
    /\ ReentryOnly

\* an edge event is delivered: _flush_node_batch first
reentry_edge_event ==
    /\ Running("start", "receive_batch")
    /\ shutdown' = [shutdown EXCEPT !.stack = Append(@, Frame("flush", "test"))]
    /\ ReentryOnly

\* _flush_node_batch: "if not self._node_event_batch: return"
flush_test ==
    /\ Running("flush", "test")
    /\ shutdown' = [shutdown EXCEPT
                      !.stack = IF shutdown.buffer = 0 THEN Popped ELSE Moved("try")]
    /\ ReentryOnly

\* _flush_node_batch: the try block, the buffer is handed to the engine
flush_try ==
    /\ Running("flush", "try")
    /\ shutdown' = [shutdown EXCEPT
                      !.overlap = @ \/ FlushInProgress,
                      !.stack = Moved("finally")]
    /\ ReentryOnly

\* _flush_node_batch: "finally: self._node_event_batch = []"
flush_finally ==
    /\ Running("flush", "finally")
    /\ shutdown' = [shutdown EXCEPT !.buffer = 0, !.stack = Popped]
    /\ ReentryOnly

\* stop: "if not self._running: return"
stop_test ==
    /\ Running("stop", "test")
    /\ shutdown' = [shutdown EXCEPT
                      !.stack = IF shutdown._running THEN Moved("set") ELSE Popped]
    /\ ReentryOnly

\* stop: "self._running = False"
stop_set ==
    /\ Running("stop", "set")
    /\ shutdown' = [shutdown EXCEPT !._running = FALSE, !.stack = Moved("flush")]
    /\ ReentryOnly

\* stop: "self._flush_node_batch()"
stop_flush ==
    /\ Running("stop", "flush")
    /\ shutdown' = [shutdown EXCEPT
                      !.flushes = @ + 1,
                      !.stack = Append(Moved("close_consumer"), Frame("flush", "test"))]
    /\ ReentryOnly

\* stop: "self.consumer_service.close()"
stop_close_consumer ==
    /\ Running("stop", "close_consumer")
    /\ shutdown' = [shutdown EXCEPT !.consumer_closes = @ + 1,
                                    !.stack = Moved("close_gremlin")]
    /\ ReentryOnly

\* stop: "self.gremlin_service.close()"
stop_close_gremlin ==
    /\ Running("stop", "close_gremlin")
    /\ shutdown' = [shutdown EXCEPT !.gremlin_closes = @ + 1, !.stack = Popped]
    /\ ReentryOnly

\* SIGINT or SIGTERM is delivered: _signal_handler runs on top of the
\* running frame
signal_delivered ==
    /\ Reentry /\ ~shutdown.stopped
    /\ shutdown.signals < MaxSignals
    /\ shutdown' = [shutdown EXCEPT !.signals = @ + 1,
                                    !.stack = Append(@, Frame("signal", "stop"))]
    /\ ReentryOnly

\* _signal_handler: "self.stop()"
signal_stop ==
    /\ Running("signal", "stop")
    /\ shutdown' = [shutdown EXCEPT
                      !.stack = Append(Moved("exit"), Frame("stop", "test"))]
    /\ ReentryOnly

\* a frame of the stack is in the finally clause of start
InFinallyOfStart == shutdown.stack[1].pc = "finally"

\* _signal_handler: "sys.exit(0)": the frames are unwound; a flush inside its
\* try block empties the buffer in its finally clause; start goes to its
\* finally clause, or leaves it when it was in it
signal_exit ==
    /\ Running("signal", "exit")
    /\ shutdown' = [shutdown EXCEPT
                      !.buffer = IF \E k \in 1..Len(shutdown.stack) :
                                       shutdown.stack[k] = Frame("flush", "finally")
                                 THEN 0 ELSE @,
                      !.stopped = InFinallyOfStart,
                      !.stack = <<Frame("start", IF InFinallyOfStart THEN "exited"
                                                 ELSE "unwound")>>]
    /\ ReentryOnly

\* start: "finally: self.stop()"
start_finally ==
    /\ Running("start", "unwound")
    /\ shutdown' = [shutdown EXCEPT
                      !.stack = <<Frame("start", "finally"), Frame("stop", "test")>>]
    /\ ReentryOnly

\* start returns, the process ends
start_returns ==
    /\ Running("start", "finally")
    /\ shutdown' = [shutdown EXCEPT !.stopped = TRUE,
                                    !.stack = <<Frame("start", "exited")>>]
    /\ ReentryOnly

NextReentry ==
    \/ reentry_start
    \/ reentry_node_event
    \/ reentry_edge_event
    \/ flush_test
    \/ flush_try
    \/ flush_finally
    \/ stop_test
    \/ stop_set
    \/ stop_flush
    \/ stop_close_consumer
    \/ stop_close_gremlin
    \/ signal_delivered
    \/ signal_stop
    \/ signal_exit
    \/ start_finally
    \/ start_returns

SpecReentry == Init /\ [][NextReentry]_vars

\* C38: no buffer is handed to the engine by a flush while another flush
\* that has handed it over is still in progress, and when the process has
\* ended, stop has flushed once and closed each connection once.
C38_StopIdempotent ==
    Reentry =>
       /\ ~shutdown.overlap
       /\ shutdown.stopped =>
             /\ shutdown.flushes = 1
             /\ shutdown.consumer_closes = 1
             /\ shutdown.gremlin_closes = 1

(***************************************************************************)
(* SpecWire: an event goes from the producer to the consumer as JSON text. *)
(* A Python value is a record of its type and its content, a JSON value a  *)
(* record of its JSON type and its content; the data dict of an event maps *)
(* some keys to Python values (the annotation is dict[str, Any]).          *)
(***************************************************************************)
Py(type, v) == [type |-> type, v |-> v]
Js(type, v) == [type |-> type, v |-> v]

\* the values a data dict holds: what JSON has a type for, and a tuple and a
\* datetime, which it has not
PyValues ==
    {Py("str", "x"), Py("int", "1"), Py("NoneType", "null"), Py("list", "1,2"),
     Py("tuple", "1,2"), Py("datetime", "2024-01-01T00:00:00")}

\* the Python types json.loads produces
JsonNativeTypes == {"str", "int", "NoneType", "list"}

DataKeys == {"name", "node_type", "edge_type"}
WireData == UNION {[K -> PyValues] : K \in SUBSET DataKeys}

\* pydantic's JSON serialization of a value
to_json(value) ==
    CASE value.type \in {"str", "UUID", "NodeType", "EdgeType", "Action", "datetime"}
            -> Js("string", value.v)
      [] value.type = "int" -> Js("number", value.v)
      [] value.type = "NoneType" -> Js("null", value.v)
      [] value.type \in {"list", "tuple"} -> Js("array", value.v)

\* json.loads of a value
from_json(j) ==
    CASE j.type = "string" -> Py("str", j.v)
      [] j.type = "number" -> Py("int", j.v)
      [] j.type = "null" -> Py("NoneType", j.v)
      [] j.type = "array" -> Py("list", j.v)

\* the events the producer is given
WireNodeEvents ==
    {[event_id |-> Py("UUID", "uuid"), node_type |-> Py("NodeType", "user"),
      data |-> d, action |-> Py("Action", a), label |-> Py("str", "A")] :
        d \in WireData, a \in {UPSERT, DELETE}}

WireEdgeEvents ==
    {[event_id |-> Py("UUID", "uuid"), edge_type |-> Py("EdgeType", "likes"),
      source_node_id |-> Py("str", "A"), source_node_type |-> Py("NodeType", "user"),
      target_node_id |-> Py("str", "B"), target_node_type |-> Py("NodeType", "article"),
      data |-> d, action |-> Py("Action", a)] :
        d \in WireData, a \in {UPSERT, DELETE}}

\* event.model_dump_json(): a JSON object with one member per field
model_dump_json(event) ==
    [f \in DOMAIN event |->
        IF f = "data" THEN [k \in DOMAIN event.data |-> to_json(event.data[k])]
        ELSE to_json(event[f])]

\* the type a field of the models is annotated with
FieldType(f) ==
    CASE f = "event_id" -> "UUID"
      [] f \in {"node_type", "source_node_type", "target_node_type"} -> "NodeType"
      [] f = "edge_type" -> "EdgeType"
      [] f = "action" -> "Action"
      [] OTHER -> "str"

\* the member is a string the field's type takes
Coerces(f, j) == j.type = "string" /\ (FieldType(f) = "str" \/ j.v \in Accepts(f))

\* model_validate of json.loads of the text: the event, or a ValidationError
wire_validate(model, json) ==
    IF /\ RequiredFields(model) \subseteq DOMAIN json
       /\ \A f \in RequiredFields(model) : Coerces(f, json[f])
    THEN [ok |-> TRUE,
          event |-> [f \in RequiredFields(model) \cup {"data"} |->
                        IF f = "data"
                        THEN [k \in DOMAIN json.data |-> from_json(json.data[k])]
                        ELSE Py(FieldType(f), json[f].v)]]
    ELSE [ok |-> FALSE]

\* a dispatch that looks for the key in the data dict as well
ProcessWireAnyKey(json) ==
    LET keys == DOMAIN json \cup DOMAIN json.data
    IN  IF "node_type" \in keys
        THEN [handler |-> "node", parsed |-> wire_validate("GraphNodeEvent", json)]
        ELSE IF "edge_type" \in keys
        THEN [handler |-> "edge", parsed |-> wire_validate("GraphEdgeEvent", json)]
        ELSE [handler |-> "none", parsed |-> [ok |-> FALSE]]

\* _process_event on the text: the handler it calls and the event it hands
\* to it (no handler is called when model_validate raises)
ProcessWire(json) ==
    IF "node_type" \in DOMAIN json
    THEN [handler |-> "node", parsed |-> wire_validate("GraphNodeEvent", json)]
    ELSE IF "edge_type" \in DOMAIN json
    THEN [handler |-> "edge", parsed |-> wire_validate("GraphEdgeEvent", json)]
    ELSE [handler |-> "none", parsed |-> [ok |-> FALSE]]

WireOnly ==
    UNCHANGED <<graph, log, checkpoints, run, position, batch, node_event_batch,
                handlerLog, engineLog, rateLimited, fatal, faults, runs,
                serviceVars, producer, checkpoint_store, maintenance, shutdown,
                workers>>

\* send_events: EventData(event.model_dump_json())
wire_send(kind, event) ==
    /\ validated.model = "none"
    /\ validated' = [model |-> "wire", pc |-> "sent", kind |-> kind, event |-> event,
                     json |-> model_dump_json(event)]
    /\ WireOnly

\* _process_event: json.loads, the test of the keys, model_validate and the
\* handler
wire_process_event ==
    /\ validated.model = "wire" /\ validated.pc = "sent"
    /\ validated' = [model |-> "wire", pc |-> "processed", kind |-> validated.kind,
                     event |-> validated.event, json |-> validated.json,
                     result |-> ProcessWire(validated.json)]
    /\ WireOnly

NextWire ==
    \/ \E event \in OnceValidated(WireNodeEvents) : wire_send("node", event)
    \/ \E event \in OnceValidated(WireEdgeEvents) : wire_send("edge", event)
    \/ wire_process_event

SpecWire == Init /\ [][NextWire]_vars

Processed == validated.model = "wire" /\ validated.pc = "processed"

\* every value of the data dict is of a type JSON has
JsonNative(event) ==
    \A k \in DOMAIN event.data : event.data[k].type \in JsonNativeTypes

\* the handler of the event's own kind was called, and no other
OwnHandler ==
    /\ validated.result.handler = validated.kind
    /\ validated.result.parsed.ok

\* C40 (as amended): an event whose data values are all of JSON's own types
\* is parsed by _process_event into an equal event; every event, whatever
\* the keys and values of its data, goes to the handler of its own kind.
C40_WireRoundTrip ==
    Processed =>
       /\ OwnHandler
       /\ JsonNative(validated.event) =>
             validated.result.parsed.event = validated.event

\* an edge event whose data has the keys node_type and edge_type has gone
\* to the edge handler as an equal event
C40_Witness ==
    /\ Processed
    /\ validated.kind = "edge"
    /\ {"node_type", "edge_type"} \subseteq DOMAIN validated.event.data
    /\ JsonNative(validated.event)
    /\ OwnHandler
    /\ validated.result.parsed.event = validated.event

\* C40 as stated: every event is parsed into an equal event and goes to the
\* handler of its own kind.
C40_WireRoundTripEveryEvent ==
    Processed =>
       /\ OwnHandler
       /\ validated.result.parsed.event = validated.event

====
